---------------------------- MODULE Spec2Model ----------------------------
(***************************************************************************)
(* A model of the symmetry-reduction engine of the repository: the         *)
(* canonicalization of task mappings (ArchGraphSystem::repr and its three  *)
(* strategies, and the older ArchGraph::mapping) and the construction of   *)
(* the automorphism group of an architecture graph (ArchGraph::complete).  *)
(*                                                                         *)
(* Permutations are sequences <<p[1], ..., p[n]>> over 1..n, which is the  *)
(* 1-indexed form the Perm class of arch_graph.cc is built from (to_perm   *)
(* adds one to every image).  Task mappings are sequences of processor     *)
(* numbers, which start at 0.                                              *)
(***************************************************************************)
EXTENDS Integers, Sequences, FiniteSets, TLC

\* ------------------------------------------------------------------------
\* Bounds of the model
\* ------------------------------------------------------------------------

\* Largest number of tasks in a task mapping submitted to repr / mapping.
MaxTasks == 2

\* Largest processor number that occurs in a submitted task mapping.
MaxPe == 2

\* Largest offset passed in the options of repr / to mapping.
MaxOffset == 1

\* Number of repr / mapping calls in one behaviour.
MaxCalls == 2

\* ------------------------------------------------------------------------
\* Sequences, lexicographic order
\* ------------------------------------------------------------------------

Range(s) == { s[i] : i \in DOMAIN s }

\* The sequences over S of length 0..n.
RECURSIVE SeqsUpTo(_, _)
SeqsUpTo(S, n) ==
  IF n = 0 THEN { <<>> }
  ELSE LET shorter == SeqsUpTo(S, n - 1)
       IN  shorter \cup { Append(s, x) : s \in { t \in shorter : Len(t) = n - 1 }, x \in S }

\* std::vector<unsigned>::operator< : lexicographic, a proper prefix is less.
LexLess(a, b) ==
  \/ \E i \in 1..Len(a) :
       /\ i <= Len(b)
       /\ a[i] < b[i]
       /\ \A j \in 1..(i - 1) : a[j] = b[j]
  \/ /\ Len(a) < Len(b)
     /\ \A j \in 1..Len(a) : a[j] = b[j]

LexLeq(a, b) == a = b \/ LexLess(a, b)

\* The least element of a non-empty set of sequences.
LexMin(S) == CHOOSE x \in S : \A y \in S : LexLeq(x, y)

\* A set of sequences as a sequence in ascending lexicographic order.
RECURSIVE SortedSeq(_)
SortedSeq(S) ==
  IF S = {} THEN <<>>
  ELSE LET m == LexMin(S) IN <<m>> \o SortedSeq(S \ {m})

Reverse(s) == [ i \in 1..Len(s) |-> s[Len(s) + 1 - i] ]

\* ------------------------------------------------------------------------
\* Permutations and permutation groups
\* ------------------------------------------------------------------------

\* Perm(degree): the identity.
IdPerm(n) == [ i \in 1..n |-> i ]

\* (p * q)[i] = p[q[i]].
Compose(p, q) == [ i \in 1..Len(q) |-> p[q[i]] ]

\* perm[i] of the 0-indexed Perm of arch_graph_system.cc.
At0(perm, i) == perm[i + 1] - 1

\* The elements of the group generated by gens (a sequence of permutations
\* of one degree), closing S under multiplication by the generators.
RECURSIVE Closure(_, _)
Closure(S, gens) ==
  LET T == S \cup { Compose(gens[k], s) : k \in DOMAIN gens, s \in S }
  IN  IF T = S THEN S ELSE Closure(T, gens)

GroupElements(degree, gens) == Closure({ IdPerm(degree) }, gens)

\* The permutation groups the architectures of the model have: degree and
\* generators(), a strong generating set relative to the base 0, 1, 2 (the
\* generators that fix the first points of the base generate the stabilizer
\* of these points): the cyclic group of order 3, S3, a transposition, the
\* trivial group, and S4 with two strong generating sets.
ReprGroups ==
  << [ degree |-> 3, gens |-> << <<2, 3, 1>> >> ],
     [ degree |-> 3, gens |-> << <<2, 3, 1>>, <<1, 3, 2>> >> ],
     [ degree |-> 3, gens |-> << <<1, 3, 2>> >> ],
     [ degree |-> 2, gens |-> << <<1, 2>> >> ],
     [ degree |-> 4, gens |-> << <<4, 3, 2, 1>>, <<1, 3, 4, 2>>, <<1, 2, 4, 3>> >> ],
     [ degree |-> 4, gens |-> << <<2, 1, 3, 4>>, <<1, 3, 2, 4>>, <<1, 2, 4, 3>> >> ] >>

\* The elements of each group, computed once.
ReprGroupElements[g \in DOMAIN ReprGroups] ==
  GroupElements(ReprGroups[g].degree, ReprGroups[g].gens)


\* ------------------------------------------------------------------------
\* TaskMapping and TaskOrbits
\* ------------------------------------------------------------------------

\* Whether processor number pe lies in [offset, offset + degree).
InSlice(pe, offset, degree) == offset <= pe /\ pe < offset + degree

\* TaskMapping::permuted(perm, offset): every task on a processor of the
\* slice moves to the image of its processor, the others stay.
permuted(tasks, perm, offset) ==
  [ i \in 1..Len(tasks) |->
      IF InSlice(tasks[i], offset, Len(perm))
        THEN At0(perm, tasks[i] - offset) + offset
        ELSE tasks[i] ]

\* TaskMapping::less_than(other): lexicographic comparison.
less_than(tasks, other) == LexLess(tasks, other)

\* TaskMapping::less_than(other, perm, offset): whether tasks permuted by
\* perm is less than other.
less_than_permuted(tasks, other, perm, offset) ==
  LexLess(permuted(tasks, perm, offset), other)

\* A TaskOrbits pointer: null, or the cache with its representatives in
\* the order of their insertion (the position is the orbit index).
NullOrbits == [ present |-> FALSE, reprs |-> <<>> ]

SomeOrbits(reprs) == [ present |-> TRUE, reprs |-> reprs ]

\* TaskOrbits::insert: a mapping already stored keeps its index.
orbits_insert(reprs, mapping) ==
  IF mapping \in Range(reprs) THEN reprs ELSE Append(reprs, mapping)

\* ArchGraphSystem::is_repr: the mapping is a stored representative.
is_repr(mapping, orbits) == orbits.present /\ mapping \in Range(orbits.reprs)

\* ------------------------------------------------------------------------
\* ArchGraphSystem::min_elem_iterate
\* ------------------------------------------------------------------------

\* The loop over the group's elements from position i on, representative
\* being the best mapping found so far.
RECURSIVE iterate_loop(_, _, _, _, _, _)
iterate_loop(tasks, offset, orbits, elements, i, representative) ==
  IF i > Len(elements) THEN representative
  ELSE IF less_than_permuted(tasks, representative, elements[i], offset)
    THEN LET next == permuted(tasks, elements[i], offset)
         IN  IF is_repr(next, orbits)
               THEN next
               ELSE iterate_loop(tasks, offset, orbits, elements, i + 1, next)
    ELSE iterate_loop(tasks, offset, orbits, elements, i + 1, representative)

\* A plausible slip: the comparison is made against the input, not against
\* the best mapping so far, so the last improving element wins.
min_elem_iterate_vs_input(tasks, offset, orbits, elements) ==
  LET better == { i \in DOMAIN elements :
                    less_than_permuted(tasks, tasks, elements[i], offset) }
  IN  IF better = {} THEN tasks
      ELSE permuted(tasks, elements[CHOOSE i \in better : \A j \in better : j <= i], offset)

min_elem_iterate(tasks, offset, orbits, elements) ==
  iterate_loop(tasks, offset, orbits, elements, 1, tasks)

\* ------------------------------------------------------------------------
\* ArchGraphSystem::min_elem_local_search
\* ------------------------------------------------------------------------

\* One scan of the generators from position j on: a generator that makes
\* the representative smaller is applied and the scan goes on.
RECURSIVE local_search_scan(_, _, _, _, _)
local_search_scan(representative, offset, gens, j, stationary) ==
  IF j > Len(gens) THEN [ representative |-> representative, stationary |-> stationary ]
  ELSE IF less_than_permuted(representative, representative, gens[j], offset)
    THEN local_search_scan(permuted(representative, gens[j], offset),
                           offset, gens, j + 1, FALSE)
    ELSE local_search_scan(representative, offset, gens, j + 1, stationary)

RECURSIVE local_search_loop(_, _, _)
local_search_loop(representative, offset, gens) ==
  LET scan == local_search_scan(representative, offset, gens, 1, TRUE)
  IN  IF scan.stationary THEN scan.representative
      ELSE local_search_loop(scan.representative, offset, gens)

\* A plausible slip: the offset of the options is not passed on, the
\* generators act on the processors from 0 on.
min_elem_local_search_no_offset(tasks, offset, gens) ==
  local_search_loop(tasks, 0, gens)

min_elem_local_search(tasks, offset, gens) ==
  local_search_loop(tasks, offset, gens)

\* ------------------------------------------------------------------------
\* ArchGraphSystem::min_elem_orbits
\* ------------------------------------------------------------------------

\* The state of the search: the best mapping so far, the processed set, the
\* queue, and the mapping returned early (found: whether there is one).
OrbitsStart(tasks) ==
  [ representative |-> tasks, processed |-> {}, unprocessed |-> <<tasks>>,
    found |-> FALSE, early |-> tasks ]

\* The loop over the generators for the mapping current, from position j.
RECURSIVE orbits_generators(_, _, _, _, _, _)
orbits_generators(st, current, offset, orbits, gens, j) ==
  IF j > Len(gens) THEN st
  ELSE LET next == permuted(current, gens[j], offset)
       IN  IF is_repr(next, orbits)
             THEN [ st EXCEPT !.found = TRUE, !.early = next ]
             ELSE IF next \notin st.processed
               THEN orbits_generators(
                      [ st EXCEPT !.unprocessed = Append(@, next) ],
                      current, offset, orbits, gens, j + 1)
               ELSE orbits_generators(st, current, offset, orbits, gens, j + 1)

\* One turn of the while loop: the front of the queue is processed.
orbits_step(st, offset, orbits, gens) ==
  LET current == Head(st.unprocessed)
      popped == [ st EXCEPT
                    !.unprocessed = Tail(@),
                    !.processed = @ \cup { current },
                    !.representative =
                      IF less_than(current, @) THEN current ELSE @ ]
  IN  orbits_generators(popped, current, offset, orbits, gens, 1)

RECURSIVE orbits_loop(_, _, _, _)
orbits_loop(st, offset, orbits, gens) ==
  IF st.found \/ st.unprocessed = <<>> THEN st
  ELSE orbits_loop(orbits_step(st, offset, orbits, gens), offset, orbits, gens)

\* The search run to its end.
orbits_search(tasks, offset, orbits, gens) ==
  orbits_loop(OrbitsStart(tasks), offset, orbits, gens)

\* A plausible slip: the minimum is not tracked, the input comes back.
min_elem_orbits_untracked(tasks, offset, orbits, gens) ==
  LET st == orbits_search(tasks, offset, orbits, gens)
  IN  IF st.found THEN st.early ELSE tasks

min_elem_orbits(tasks, offset, orbits, gens) ==
  LET st == orbits_search(tasks, offset, orbits, gens)
  IN  IF st.found THEN st.early ELSE st.representative

\* ------------------------------------------------------------------------
\* ArchGraph::mapping and its two searches (arch_graph.cc)
\* ------------------------------------------------------------------------

\* The comparison loop of min_elem_bruteforce from task i on: whether perm
\* maps tasks to a mapping that is not greater than min_element.
RECURSIVE bruteforce_minimal(_, _, _, _, _, _)
bruteforce_minimal(perm, tasks, min_element, min_pe, max_pe, i) ==
  IF i > Len(tasks) THEN TRUE
  ELSE IF tasks[i] < min_pe \/ tasks[i] > max_pe
    THEN bruteforce_minimal(perm, tasks, min_element, min_pe, max_pe, i + 1)
    ELSE LET perm_image == perm[(tasks[i] - min_pe) + 1] - 1 + min_pe
         IN  IF perm_image < min_element[i] THEN TRUE
             ELSE IF perm_image > min_element[i] THEN FALSE
             ELSE bruteforce_minimal(perm, tasks, min_element, min_pe, max_pe, i + 1)

\* A plausible slip: the images are stored without "+ min_pe".
bruteforce_assign_no_offset(perm, tasks, min_element, min_pe, max_pe) ==
  [ i \in 1..Len(tasks) |->
      IF tasks[i] < min_pe \/ tasks[i] > max_pe
        THEN min_element[i]
        ELSE perm[(tasks[i] - min_pe) + 1] - 1 ]

\* The second loop: min_element takes the images of the tasks in range.
bruteforce_assign(perm, tasks, min_element, min_pe, max_pe) ==
  [ i \in 1..Len(tasks) |->
      IF tasks[i] < min_pe \/ tasks[i] > max_pe
        THEN min_element[i]
        ELSE perm[(tasks[i] - min_pe) + 1] - 1 + min_pe ]

RECURSIVE bruteforce_loop(_, _, _, _, _, _)
bruteforce_loop(ag, tasks, min_element, min_pe, max_pe, k) ==
  IF k > Len(ag) THEN min_element
  ELSE bruteforce_loop(
         ag, tasks,
         IF bruteforce_minimal(ag[k], tasks, min_element, min_pe, max_pe, 1)
           THEN bruteforce_assign(ag[k], tasks, min_element, min_pe, max_pe)
           ELSE min_element,
         min_pe, max_pe, k + 1)

\* A plausible slip: the search stops at the first element that is not
\* greater.
min_elem_bruteforce_first(ag, tasks, min_pe, max_pe) ==
  IF ag = <<>> THEN tasks
  ELSE bruteforce_assign(ag[1], tasks, tasks, min_pe, max_pe)

\* ag: the elements of the group in the order of iteration.
min_elem_bruteforce(ag, tasks, min_pe, max_pe) ==
  bruteforce_loop(ag, tasks, tasks, min_pe, max_pe, 1)

\* The comparison loop of min_elem_approx over min_element from entry i on:
\* whether gen makes min_element smaller.
RECURSIVE approx_new_minimum(_, _, _, _, _)
approx_new_minimum(gen, min_element, min_pe, max_pe, i) ==
  IF i > Len(min_element) THEN FALSE
  ELSE IF min_element[i] < min_pe \/ min_element[i] > max_pe
    THEN approx_new_minimum(gen, min_element, min_pe, max_pe, i + 1)
    ELSE LET task == min_element[i] - min_pe
             gen_image == gen[task + 1] - 1
         IN  IF gen_image < task THEN TRUE
             ELSE IF gen_image > task THEN FALSE
             ELSE approx_new_minimum(gen, min_element, min_pe, max_pe, i + 1)

approx_assign(gen, min_element, min_pe, max_pe) ==
  [ i \in 1..Len(min_element) |->
      IF min_element[i] < min_pe \/ min_element[i] > max_pe
        THEN min_element[i]
        ELSE gen[(min_element[i] - min_pe) + 1] - 1 + min_pe ]

\* The do-while loop; k is the position in the scan of the generators,
\* which starts again after a generator was applied.
RECURSIVE approx_loop(_, _, _, _, _)
approx_loop(generators, min_element, min_pe, max_pe, k) ==
  IF k > Len(generators) THEN min_element
  ELSE IF approx_new_minimum(generators[k], min_element, min_pe, max_pe, 1)
    THEN approx_loop(generators,
                     approx_assign(generators[k], min_element, min_pe, max_pe),
                     min_pe, max_pe, 1)
    ELSE approx_loop(generators, min_element, min_pe, max_pe, k + 1)

\* generators: ag.bsgs().sgs().
min_elem_approx(generators, tasks, min_pe, max_pe) ==
  approx_loop(generators, tasks, min_pe, max_pe, 1)

\* ArchGraph::mapping: the equivalence class of the TaskMapping returned.
mapping_result(ag, generators, num_processors, tasks, offs, mapping_variant) ==
  LET min_pe == offs
      max_pe == offs + num_processors - 1
  IN  IF mapping_variant = "MAP_APPROX"
        THEN min_elem_approx(generators, tasks, min_pe, max_pe)
        ELSE min_elem_bruteforce(ag, tasks, min_pe, max_pe)

\* ------------------------------------------------------------------------
\* State
\* ------------------------------------------------------------------------

VARIABLES
  \* The canonicalization engine
  grp,                       \* the architecture: its automorphism group, an index of ReprGroups
  offset,                    \* options.offset, the first processor of the architecture's slice
  orbits,                    \* the TaskOrbits cache shared by the calls
  calls,                     \* the calls made so far: mapping, method, cached, result,
                             \* and the processed set of min_elem_orbits at its return
  search,                    \* the locals of a search that is running, statement by statement
  \* ArchGraph
  processor_types,           \* _processor_types.size()
  channel_types,             \* _channel_types.size()
  processor_type_instances,  \* _processor_type_instances
  channel_type_instances,    \* _channel_type_instances
  adj,                       \* _adj: the type of every vertex, the edges <<from, to, type>>
  automorphisms,             \* _automorphisms: the elements of the stored group
  automorphisms_valid,       \* _automorphisms_valid
  thrown,                    \* what the last call threw, "none" if it returned
  last_op,                   \* the last call made on the ArchGraph
  setup_pc                   \* ArchGraphTest::SetUp: the number of statements executed

VARIABLES
  \* PermGroup::const_iterator
  it_group,                  \* the PermGroup iterated: its degree and generators
  it_state,                  \* _state: a position in each transversal
  it_end,                    \* _end
  it_yielded,                \* the elements the loop has read so far, in order
  \* PermGroup::direct_product
  dp_factors,                \* the groups [first, last), each its degree and generators()
  dp_result,                 \* the call's outcome: "none" before the call, then the group
  \* ArchGraphCluster
  cl_subsystems,             \* _subsystems: per child its number of processors and group
  cl_offset,                 \* options_->offset of the caller
  cl_orbits,                 \* the TaskOrbits cache passed to repr_
  cl_trace,                  \* the calls made on the children: child, mapping, offset, cache
  cl_result,                 \* the last call's outcome
  \* SchreierGeneratorQueue
  sgq,                       \* the queue: what update stored, _sg_it, _beta_it, the flags
  sgq_pass,                  \* the loop over the queue: its position and what it has read
  \* profile_parse.cc
  parse_input,               \* the string or tree handed to the parser
  parse_result,              \* "none" before the call, then what was returned or thrown
  \* PartialPerm
  pperm_operands,            \* lhs and rhs of the product
  pperm_result               \* "none" before the call, then lhs * rhs and lhs *= rhs

reprVars == << grp, offset, orbits, calls, search >>

archVars == << processor_types, channel_types, processor_type_instances,
               channel_type_instances, adj, automorphisms, automorphisms_valid,
               thrown, last_op, setup_pc >>

iterVars == << it_group, it_state, it_end, it_yielded >>

prodVars == << dp_factors, dp_result >>

clusterVars == << cl_subsystems, cl_offset, cl_orbits, cl_trace, cl_result >>

queueVars == << sgq, sgq_pass >>

parseVars == << parse_input, parse_result >>

ppermVars == << pperm_operands, pperm_result >>

\* The state of the library parts other than the two above.
libVars == << iterVars, prodVars, clusterVars, queueVars, parseVars, ppermVars >>

vars == << reprVars, archVars, libVars >>

\* A part of the library of which no object exists.
\* The outcome of a call that has not been made.
NotCalled == [ status |-> "none" ]

IterIdle == it_group = "none" /\ it_state = <<>> /\ it_end = TRUE /\ it_yielded = <<>>

ProdIdle == dp_factors = <<>> /\ dp_result = NotCalled

ClusterIdle ==
  /\ cl_subsystems = <<>>
  /\ cl_offset = 0
  /\ cl_orbits = <<>>
  /\ cl_trace = <<>>
  /\ cl_result = NotCalled

QueueIdle == sgq = "none" /\ sgq_pass = "none"

ParseIdle == parse_input = "none" /\ parse_result = "none"

PPermIdle == pperm_operands = "none" /\ pperm_result = "none"

LibIdle == IterIdle /\ ProdIdle /\ ClusterIdle /\ QueueIdle /\ ParseIdle /\ PPermIdle

\* ArchGraph(): the state after construction.
ArchInit ==
  /\ processor_types = 0
  /\ channel_types = 0
  /\ processor_type_instances = <<>>
  /\ channel_type_instances = <<>>
  /\ adj = [ vertices |-> <<>>, edges |-> <<>> ]
  /\ automorphisms = { IdPerm(1) }
  /\ automorphisms_valid = FALSE
  /\ thrown = "none"
  /\ last_op = "ArchGraph"
  /\ setup_pc = 0

\* ------------------------------------------------------------------------
\* Canonicalization: ArchGraphSystem::repr and ArchGraph::mapping
\* ------------------------------------------------------------------------

\* The allocation of the S4 scenario.
FixtureAllocation == <<2, 0, 1, 3>>

\* The task mappings submitted.
TaskMappings == SeqsUpTo(0..MaxPe, MaxTasks) \cup { FixtureAllocation }

\* The orders in which PermGroup's iterator may yield the elements: every
\* element once, in an order that is not specified.
ElementOrders[g \in DOMAIN ReprGroups] ==
  LET sorted == SortedSeq(ReprGroupElements[g])
  IN  { sorted, Reverse(sorted) }

Methods == { "ITERATE", "LOCAL_SEARCH", "ORBITS" }

MappingVariants == { "MAP_APPROX", "MAP_BRUTEFORCE" }

ReprInit ==
  /\ grp \in DOMAIN ReprGroups
  /\ offset \in 0..MaxOffset
  /\ orbits = <<>>
  /\ calls = <<>>
  /\ search = NotCalled

\* The representative that repr computes: the dispatch on options.method.
representative_of(tasks, method, orbits_ptr, elements) ==
  IF method = "ITERATE"
    THEN min_elem_iterate(tasks, offset, orbits_ptr, elements)
  ELSE IF method = "LOCAL_SEARCH"
    THEN min_elem_local_search(tasks, offset, ReprGroups[grp].gens)
  ELSE min_elem_orbits(tasks, offset, orbits_ptr, ReprGroups[grp].gens)

\* A plausible slip: the representative is not inserted into the cache.
repr_no_insert(tasks, method, cached, elements) ==
  LET orbits_ptr == IF cached THEN SomeOrbits(orbits) ELSE NullOrbits
      representative == representative_of(tasks, method, orbits_ptr, elements)
  IN  /\ calls' = Append(calls, [ mapping |-> tasks, method |-> method,
                                  cached |-> cached, result |-> representative,
                                  processed |-> {} ])
      /\ UNCHANGED << grp, offset, orbits, search, archVars, libVars >>

\* ArchGraphSystem::repr(mapping, options, orbits); cached: whether the
\* caller passes the cache or a null pointer.
repr(tasks, method, cached, elements) ==
  LET orbits_ptr == IF cached THEN SomeOrbits(orbits) ELSE NullOrbits
      representative == representative_of(tasks, method, orbits_ptr, elements)
      processed == IF method = "ORBITS"
                     THEN orbits_search(tasks, offset, orbits_ptr,
                                        ReprGroups[grp].gens).processed
                     ELSE {}
  IN  /\ orbits' = IF cached THEN orbits_insert(orbits, representative) ELSE orbits
      /\ calls' = Append(calls, [ mapping |-> tasks, method |-> method,
                                  cached |-> cached, result |-> representative,
                                  processed |-> processed ])
      /\ UNCHANGED << grp, offset, search, archVars, libVars >>

\* ArchGraph::mapping(tasks, offset, mapping_variant) on an architecture
\* whose automorphisms are the group grp.
mapping(tasks, mapping_variant, elements) ==
  LET result == mapping_result(elements, ReprGroups[grp].gens,
                               ReprGroups[grp].degree, tasks, offset,
                               mapping_variant)
  IN  /\ calls' = Append(calls, [ mapping |-> tasks, method |-> mapping_variant,
                                  cached |-> FALSE, result |-> result,
                                  processed |-> {} ])
      /\ UNCHANGED << grp, offset, orbits, search, archVars, libVars >>

\* A call of the new interface.
ReprCall ==
  /\ Len(calls) < MaxCalls
  /\ \E tasks \in TaskMappings, elements \in ElementOrders[grp],
        method \in Methods, cached \in BOOLEAN :
       repr(tasks, method, cached, elements)

\* A call of the old interface.
MappingCall ==
  /\ Len(calls) < MaxCalls
  /\ \E tasks \in TaskMappings, elements \in ElementOrders[grp],
        mapping_variant \in MappingVariants :
       mapping(tasks, mapping_variant, elements)

ReprNext == ReprCall \/ MappingCall

InitRepr == ReprInit /\ ArchInit /\ LibIdle

SpecRepr == InitRepr /\ [][ReprNext]_vars

\* ------------------------------------------------------------------------
\* Canonicalization: properties
\* ------------------------------------------------------------------------

\* The orbit of a task mapping under the architecture's group, acting on
\* the processors of the slice, and its least element.
Orbit(tasks) == { permuted(tasks, g, offset) : g \in ReprGroupElements[grp] }

OrbitMin(tasks) == LexMin(Orbit(tasks))

\* The searches that are exact by design and those that are approximate.
ExactMethods == { "ITERATE", "ORBITS", "MAP_BRUTEFORCE" }

ApproxMethods == { "LOCAL_SEARCH", "MAP_APPROX" }

\* Call k was made with no cache: a null pointer, or the cache still empty.
NoCache(k) == ~calls[k].cached \/ \A j \in 1..(k - 1) : ~calls[j].cached

\* C1: with the ITERATE strategy and no orbits cache (null or empty), repr
\* returns the lexicographically least element of the orbit of the mapping
\* under the group, and so does the older brute force search of mapping.
C1_IterateReturnsOrbitMinimum ==
  \A k \in DOMAIN calls :
    (calls[k].method \in { "ITERATE", "MAP_BRUTEFORCE" } /\ NoCache(k))
      => calls[k].result = OrbitMin(calls[k].mapping)

\* C1 witness: an ITERATE call with the empty cache and a brute force call
\* that both moved their mapping.
C1_Witness ==
  /\ Len(calls) = 2
  /\ calls[1].method = "ITERATE" /\ calls[1].cached
  /\ calls[2].method = "MAP_BRUTEFORCE"
  /\ \A k \in 1..2 : calls[k].result # calls[k].mapping
  /\ calls[1].mapping # calls[2].mapping

\* C2: with the ORBITS strategy and no orbits cache, the search has visited
\* every element of the orbit when the queue is empty, and repr returns the
\* least element of the orbit.
C2_OrbitsReturnsOrbitMinimum ==
  \A k \in DOMAIN calls :
    (calls[k].method = "ORBITS" /\ NoCache(k))
      => /\ calls[k].processed = Orbit(calls[k].mapping)
         /\ calls[k].result = OrbitMin(calls[k].mapping)

\* C2 witness: an ORBITS call without a cache on an orbit of six mappings
\* whose least element is not the input.
C2_Witness ==
  \E k \in DOMAIN calls :
    /\ calls[k].method = "ORBITS" /\ ~calls[k].cached
    /\ Cardinality(calls[k].processed) = 6
    /\ calls[k].result # calls[k].mapping

\* C3: for every strategy and every state of the cache passed in, the
\* mapping repr returns is lexicographically less than or equal to the
\* input and lies in the orbit of the input.
C3_ReprNotGreaterAndInOrbit ==
  \A k \in DOMAIN calls :
    calls[k].method \in Methods
      => /\ LexLeq(calls[k].result, calls[k].mapping)
         /\ calls[k].result \in Orbit(calls[k].mapping)

\* Two calls without a cache on the same mapping.
SameInput(j, k) ==
  /\ NoCache(j) /\ NoCache(k)
  /\ calls[j].mapping = calls[k].mapping

\* C4 as claimed: run without an orbits cache, ITERATE, LOCAL_SEARCH and
\* ORBITS return the same mapping, and on S4 the allocation [2,0,1,3] is
\* canonicalized to [0,1,2,3] by ITERATE and by LOCAL_SEARCH.
C4_AllStrategiesAgree ==
  /\ \A j, k \in DOMAIN calls :
       (SameInput(j, k) /\ calls[j].method \in Methods /\ calls[k].method \in Methods)
         => calls[j].result = calls[k].result
  /\ \A k \in DOMAIN calls :
       ( /\ Cardinality(ReprGroupElements[grp]) = 24
         /\ offset = 0
         /\ calls[k].mapping = FixtureAllocation
         /\ calls[k].method \in { "ITERATE", "LOCAL_SEARCH" }
         /\ NoCache(k) )
         => calls[k].result = <<0, 1, 2, 3>>

\* The generating set of S4 made of the adjacent transpositions.
AdjacentTranspositions == << <<2, 1, 3, 4>>, <<1, 3, 2, 4>>, <<1, 2, 4, 3>> >>

\* C4 as amended: run without an orbits cache, the exact searches (ITERATE,
\* ORBITS, the brute force search) return the same mapping and an
\* approximate search (LOCAL_SEARCH, the approximate search of mapping)
\* never returns a smaller one; on S4 the allocation [2,0,1,3] is
\* canonicalized to [0,1,2,3] by the exact searches, and by the approximate
\* ones when S4 is generated by the adjacent transpositions.
C4_ExactStrategiesAgree ==
  /\ \A j, k \in DOMAIN calls :
       SameInput(j, k)
         => /\ (calls[j].method \in ExactMethods /\ calls[k].method \in ExactMethods)
                 => calls[j].result = calls[k].result
            /\ (calls[j].method \in ExactMethods /\ calls[k].method \in ApproxMethods)
                 => LexLeq(calls[j].result, calls[k].result)
  /\ \A k \in DOMAIN calls :
       ( /\ Cardinality(ReprGroupElements[grp]) = 24
         /\ offset = 0
         /\ calls[k].mapping = FixtureAllocation
         /\ NoCache(k)
         /\ \/ calls[k].method \in ExactMethods
            \/ ReprGroups[grp].gens = AdjacentTranspositions )
         => calls[k].result = <<0, 1, 2, 3>>

\* C4 witness: on S4, ITERATE and LOCAL_SEARCH have both canonicalized
\* [2,0,1,3] to [0,1,2,3].
C4_Witness ==
  /\ Cardinality(ReprGroupElements[grp]) = 24
  /\ offset = 0
  /\ Len(calls) = 2
  /\ calls[1].method = "ITERATE" /\ calls[2].method = "LOCAL_SEARCH"
  /\ \A k \in 1..2 :
       /\ ~calls[k].cached
       /\ calls[k].mapping = FixtureAllocation
       /\ calls[k].result = <<0, 1, 2, 3>>

\* C5: the mapping returned by LOCAL_SEARCH, and by the approximate search
\* of mapping, lies in the orbit of the input and is not less than the
\* exact minimum of the orbit, which is what ITERATE returns.
C5_LocalSearchInOrbitNotBelowMinimum ==
  \A k \in DOMAIN calls :
    calls[k].method \in ApproxMethods
      => /\ calls[k].result \in Orbit(calls[k].mapping)
         /\ LexLeq(OrbitMin(calls[k].mapping), calls[k].result)
         /\ \A j \in DOMAIN calls :
              (calls[j].method = "ITERATE" /\ NoCache(j)
                 /\ calls[j].mapping = calls[k].mapping)
                => LexLeq(calls[j].result, calls[k].result)

\* C5 witness: LOCAL_SEARCH has moved a mapping and stopped above the
\* minimum that ITERATE found for the same mapping.
C5_Witness ==
  /\ Len(calls) = 2
  /\ calls[1].method = "ITERATE" /\ ~calls[1].cached
  /\ calls[2].method = "LOCAL_SEARCH"
  /\ calls[2].mapping = calls[1].mapping
  /\ calls[2].result # calls[2].mapping
  /\ LexLess(calls[1].result, calls[2].result)

\* The calls that were passed the cache.
CachedCalls == { k \in DOMAIN calls : calls[k].cached }

\* C6: when every call that shares the cache, empty at first, uses an exact
\* strategy, two submitted mappings get the same representative exactly if
\* they lie in the same orbit, and the cache holds as many mappings as
\* there are orbits among the submitted mappings.
C6_SameRepresentativeIffSameOrbit ==
  (\A k \in CachedCalls : calls[k].method \in { "ITERATE", "ORBITS" })
    => /\ \A j, k \in CachedCalls :
            (calls[j].result = calls[k].result)
              <=> (Orbit(calls[j].mapping) = Orbit(calls[k].mapping))
       /\ Len(orbits) = Cardinality({ Orbit(calls[k].mapping) : k \in CachedCalls })

\* C6 witness: two different mappings of one orbit were submitted with the
\* cache, the second after the first had stored the representative.
C6_Witness ==
  /\ Len(calls) = 2
  /\ \A k \in 1..2 : calls[k].cached /\ calls[k].method \in { "ITERATE", "ORBITS" }
  /\ calls[1].method # calls[2].method
  /\ calls[1].mapping # calls[2].mapping
  /\ calls[1].result = calls[2].result
  /\ calls[2].result # calls[2].mapping
  /\ Len(orbits) = 1

\* ------------------------------------------------------------------------
\* ArchGraph: building the graph
\* ------------------------------------------------------------------------

\* boost::num_vertices(_adj) and boost::num_edges(_adj).
num_processors == Len(adj.vertices)

num_channels == Len(adj.edges)

\* The processors, numbered from 0; vertex v has type adj.vertices[v + 1].
Processors == 0..(num_processors - 1)

TypeOf(v) == adj.vertices[v + 1]

\* ArchGraph::new_processor_type(label): the new type's id is the number
\* of types before the call.
new_processor_type ==
  /\ processor_types' = processor_types + 1
  /\ processor_type_instances' = Append(processor_type_instances, 0)
  /\ thrown' = "none"
  /\ last_op' = "new_processor_type"
  /\ UNCHANGED << channel_types, channel_type_instances, adj, automorphisms,
                  automorphisms_valid, reprVars >>

\* ArchGraph::new_channel_type(label).
new_channel_type ==
  /\ channel_types' = channel_types + 1
  /\ channel_type_instances' = Append(channel_type_instances, 0)
  /\ thrown' = "none"
  /\ last_op' = "new_channel_type"
  /\ UNCHANGED << processor_types, processor_type_instances, adj, automorphisms,
                  automorphisms_valid, reprVars >>

\* ArchGraph::add_processor(pt), pt the id of an existing type.
add_processor(pt) ==
  /\ automorphisms_valid' = FALSE
  /\ processor_type_instances' =
       [ processor_type_instances EXCEPT ![pt + 1] = @ + 1 ]
  /\ adj' = [ adj EXCEPT !.vertices = Append(@, pt) ]
  /\ thrown' = "none"
  /\ last_op' = "add_processor"
  /\ UNCHANGED << processor_types, channel_types, channel_type_instances,
                  automorphisms, reprVars >>

\* ArchGraph::add_channel(from, to, cht) between existing processors, cht
\* the id of an existing type.
add_channel(from, to, cht) ==
  /\ automorphisms_valid' = FALSE
  /\ channel_type_instances' =
       [ channel_type_instances EXCEPT ![cht + 1] = @ + 1 ]
  /\ adj' = [ adj EXCEPT !.edges = Append(@, << from, to, cht >>) ]
  /\ thrown' = "none"
  /\ last_op' = "add_channel"
  /\ UNCHANGED << processor_types, channel_types, processor_type_instances,
                  automorphisms, reprVars >>

\* ------------------------------------------------------------------------
\* ArchGraph::complete: the coloured graph handed to nauty
\* ------------------------------------------------------------------------

\* A plausible slip: the shifts are counted from cts - 1 and one more, the
\* number of bits of the largest type id.
RECURSIVE shift_count_rounded_up(_)
shift_count_rounded_up(cts) ==
  IF cts <= 1 THEN 0 ELSE 1 + shift_count_rounded_up((cts + 1) \div 2)

\* int cts_log2 = 0; while (cts >>= 1) ++cts_log2;
RECURSIVE shift_count(_)
shift_count(cts) == IF cts \div 2 = 0 THEN 0 ELSE 1 + shift_count(cts \div 2)

cts_log2 == shift_count(channel_types)

n_orig == num_processors

\* The number of vertices of the graph handed to nauty.
n_nauty == n_orig * (cts_log2 + 1)

Levels == 0..cts_log2

\* t & (1 << level)
BitSet(t, level) == (t \div (2 ^ level)) % 2 = 1

\* ADDONEEDGE(g, v, w, m) joins v and w in both directions: an edge of g is
\* the set of its ends.
vertical_edges ==
  { { v + level * n_orig, v + (level - 1) * n_orig } :
      v \in Processors, level \in Levels \ {0} }

\* A channel of type t contributes on the levels of the bits of t + 1.
horizontal_edges ==
  UNION { { { adj.edges[e][1] + level * n_orig, adj.edges[e][2] + level * n_orig } :
              level \in { l \in Levels : BitSet(adj.edges[e][3] + 1, l) } } :
          e \in DOMAIN adj.edges }

nauty_graph == vertical_edges \cup horizontal_edges

\* processor_type_offsets[t]: the instances of the types before t.
RECURSIVE SumUpTo(_, _)
SumUpTo(s, k) == IF k = 0 THEN 0 ELSE s[k] + SumUpTo(s, k - 1)

processor_type_offsets(t) == SumUpTo(processor_type_instances, t)

\* processor_type_counters[t] when vertex v is reached: the vertices before
\* v that have v's type.
counter_before(v) == Cardinality({ u \in Processors : u < v /\ TypeOf(u) = TypeOf(v) })

\* The slot of lab and ptn written for vertex v on a level.
slot(v, level) == processor_type_offsets(TypeOf(v)) + counter_before(v) + level * n_orig

\* A plausible slip: "==" for "!=", the mark is set at every vertex but
\* the last of its type.
ptn_of_inverted(v) ==
  IF counter_before(v) + 1 # processor_type_instances[TypeOf(v) + 1] THEN 0 ELSE 1

\* ptn of the slot of v: 0 at the last vertex of v's type, else 1.
ptn_of(v) ==
  IF counter_before(v) + 1 # processor_type_instances[TypeOf(v) + 1] THEN 1 ELSE 0

\* A plausible slip: the end of a cell is marked at every vertex.
ptn_at_mutated(s) == 0

\* ptn[s] for a slot s that was written.
ptn_at(s) ==
  LET v == CHOOSE u \in Processors : \E level \in Levels : slot(u, level) = s
  IN  ptn_of(v)

\* The colour of a vertex of the nauty graph: the slot at which the cell
\* of its own slot ends (the first slot from it on whose ptn is 0).
colour(x) ==
  LET s == slot(x % n_orig, x \div n_orig)
      ends == { e \in s..(n_nauty - 1) : ptn_at(e) = 0 }
  IN  IF ends = {} THEN n_nauty - 1
      ELSE CHOOSE e \in ends : \A f \in ends : e <= f

\* ------------------------------------------------------------------------
\* ArchGraph::complete: nauty's answer and the stored group
\* ------------------------------------------------------------------------

\* The bijections of a set onto itself.
Bijections(S) == { f \in [S -> S] : \A x, y \in S : f[x] = f[y] => x = y }

\* The permutations of the processors that map every cell to itself, cells
\* being a sequence of disjoint sets that cover the processors.
RECURSIVE CellPerms(_)
CellPerms(cells) ==
  IF cells = <<>> THEN { << >> }
  ELSE { f @@ g : f \in Bijections(Head(cells)), g \in CellPerms(Tail(cells)) }

\* The colour classes of the vertices S under the colouring col, as a
\* sequence.
RECURSIVE CellsFrom(_, _)
CellsFrom(S, col) ==
  IF S = {} THEN <<>>
  ELSE LET x == CHOOSE y \in S : TRUE
           cell == { y \in S : col[y] = col[x] }
       IN  <<cell>> \o CellsFrom(S \ cell, col)

\* p acting on every level of the nauty graph as it acts on the base level.
lifted(p, x) == p[x % n_orig] + (x \div n_orig) * n_orig

\* densenauty(g, lab, ptn, ...): the automorphisms of the graph g coloured
\* by col, each restricted to the base level as save_generator keeps it.
\* The cells lie inside the levels and the vertical edges join every vertex
\* to its copy one level down, so an automorphism acts alike on all levels.
densenauty(g, col) ==
  { p \in CellPerms(CellsFrom(Processors, col)) :
      /\ \A x \in DOMAIN col : col[lifted(p, x)] = col[x]
      /\ \A edge \in g : { lifted(p, x) : x \in edge } \in g }

\* to_perm(perm, degree): the images plus one, for the 1-indexed Perm.
to_perm(perm, degree) == [ i \in 1..degree |-> perm[i - 1] + 1 ]

\* The elements of the group that complete() stores: the group generated
\* by what nauty reported, the trivial group when it reported nothing.
complete_group ==
  LET generator_degree == n_orig
      g == nauty_graph
      col == [ x \in 0..(n_nauty - 1) |-> colour(x) ]
      generators == { to_perm(p, generator_degree) : p \in densenauty(g, col) }
                      \ { IdPerm(generator_degree) }
  IN  IF generators = {}
        THEN { IdPerm(generator_degree) }
        ELSE generators \cup { IdPerm(generator_degree) }

\* What the specification asks of complete(): TooManyTypes when there are
\* more than seven processor types or channel types.
complete_with_type_limit ==
  /\ last_op' = "complete"
  /\ IF automorphisms_valid
       THEN /\ thrown' = "none"
            /\ UNCHANGED << automorphisms, automorphisms_valid >>
       ELSE IF processor_types > 7 \/ channel_types > 7
         THEN /\ thrown' = "TooManyTypes"
              /\ UNCHANGED << automorphisms, automorphisms_valid >>
         ELSE /\ thrown' = "none"
              /\ automorphisms' = complete_group
              /\ automorphisms_valid' = TRUE
  /\ UNCHANGED << processor_types, channel_types, processor_type_instances,
                  channel_type_instances, adj, reprVars >>

\* ArchGraph::complete().
complete ==
  /\ last_op' = "complete"
  /\ thrown' = "none"
  /\ IF automorphisms_valid
       THEN UNCHANGED << automorphisms, automorphisms_valid >>
       ELSE /\ automorphisms' = complete_group
            /\ automorphisms_valid' = TRUE
  /\ UNCHANGED << processor_types, channel_types, processor_type_instances,
                  channel_type_instances, adj, reprVars >>

\* ------------------------------------------------------------------------
\* ArchGraph: any sequence of calls on a small graph
\* ------------------------------------------------------------------------

\* Bounds of the graphs built call by call.
MaxProcessors == 2

MaxChannels == 3

MaxProcessorTypes == 2

MaxChannelTypes == 3

NewProcessorType(max_types) ==
  /\ processor_types < max_types
  /\ new_processor_type
  /\ UNCHANGED << setup_pc, libVars >>

NewChannelType(max_types) ==
  /\ channel_types < max_types
  /\ new_channel_type
  /\ UNCHANGED << setup_pc, libVars >>

AddProcessor(max_processors) ==
  /\ num_processors < max_processors
  /\ \E pt \in 0..(processor_types - 1) : add_processor(pt)
  /\ UNCHANGED << setup_pc, libVars >>

AddChannel(max_channels) ==
  /\ num_channels < max_channels
  /\ \E from \in Processors, to \in Processors, cht \in 0..(channel_types - 1) :
       add_channel(from, to, cht)
  /\ UNCHANGED << setup_pc, libVars >>

\* complete() is called on a graph that has processors.
Complete ==
  /\ num_processors > 0
  /\ complete
  /\ UNCHANGED << setup_pc, libVars >>

ArchNext ==
  \/ NewProcessorType(MaxProcessorTypes)
  \/ NewChannelType(MaxChannelTypes)
  \/ AddProcessor(MaxProcessors)
  \/ AddChannel(MaxChannels)
  \/ Complete

\* No canonicalization call is made.
ReprIdle ==
  /\ grp = 1
  /\ offset = 0
  /\ orbits = <<>>
  /\ calls = <<>>
  /\ search = NotCalled

InitArch == ArchInit /\ ReprIdle /\ LibIdle

SpecArch == InitArch /\ [][ArchNext]_vars

\* ------------------------------------------------------------------------
\* ArchGraph: many types
\* ------------------------------------------------------------------------

\* Bounds of the graphs with many types.
MaxTypes == 8

TypesMaxProcessors == 1

TypesMaxChannels == 1

TypesNext ==
  \/ NewProcessorType(MaxTypes)
  \/ NewChannelType(MaxTypes)
  \/ AddProcessor(TypesMaxProcessors)
  \/ AddChannel(TypesMaxChannels)
  \/ Complete

SpecTypes == InitArch /\ [][TypesNext]_vars

\* ------------------------------------------------------------------------
\* ArchGraphTest::SetUp: the fixture architecture
\* ------------------------------------------------------------------------

\* The statements of SetUp in the order of their execution: a7 = 0 and
\* a15 = 1 are the processor types, l1 = 0, l2 = 1 and sram = 2 the channel
\* types, pe0..pe7 the processors 0..7.
RECURSIVE SetUpChannels(_)
SetUpChannels(pe) ==
  IF pe > 7 THEN <<>>
  ELSE << << "add_channel", pe, pe, 0 >>,
          << "add_channel", pe, pe, 1 >>,
          << "add_channel", pe, pe, 2 >> >>
       \o [ k \in 1..7 |-> << "add_channel", pe, IF k - 1 < pe THEN k - 1 ELSE k, 2 >> ]
       \o SetUpChannels(pe + 1)

SetUpScript ==
  << << "new_processor_type" >>, << "new_processor_type" >>,
     << "new_channel_type" >>, << "new_channel_type" >>, << "new_channel_type" >> >>
  \o [ k \in 1..8 |-> << "add_processor", IF k <= 4 THEN 0 ELSE 1 >> ]
  \o SetUpChannels(0)
  \o << << "add_channel", 0, 1, 1 >>, << "add_channel", 0, 2, 1 >>,
        << "add_channel", 0, 3, 1 >>, << "add_channel", 1, 2, 1 >>,
        << "add_channel", 1, 3, 1 >>, << "add_channel", 2, 3, 1 >>,
        << "add_channel", 4, 5, 1 >>, << "add_channel", 4, 6, 1 >>,
        << "add_channel", 4, 7, 1 >>, << "add_channel", 5, 6, 1 >>,
        << "add_channel", 5, 7, 1 >>, << "add_channel", 6, 7, 1 >> >>

\* The next statement of SetUp.
SetUpStep ==
  /\ setup_pc < Len(SetUpScript)
  /\ setup_pc' = setup_pc + 1
  /\ LET stmt == SetUpScript[setup_pc + 1]
     IN  \/ stmt[1] = "new_processor_type" /\ new_processor_type
         \/ stmt[1] = "new_channel_type" /\ new_channel_type
         \/ stmt[1] = "add_processor" /\ add_processor(stmt[2])
         \/ stmt[1] = "add_channel" /\ add_channel(stmt[2], stmt[3], stmt[4])
  /\ UNCHANGED libVars

\* A test calls complete() on the fixture.
FixtureComplete ==
  /\ setup_pc = Len(SetUpScript)
  /\ complete
  /\ UNCHANGED << setup_pc, libVars >>

FixtureNext == SetUpStep \/ FixtureComplete

SpecFixture == InitArch /\ [][FixtureNext]_vars

\* ------------------------------------------------------------------------
\* ArchGraph: properties
\* ------------------------------------------------------------------------

\* A channel of type c joins the processors u and v.
Joined(c, u, v) ==
  \E e \in DOMAIN adj.edges :
    /\ adj.edges[e][3] = c
    /\ { adj.edges[e][1], adj.edges[e][2] } = { u, v }

\* The automorphisms of the architecture graph: the permutations of the
\* processors that keep every processor's type and, for every channel type
\* and pair of processors, whether a channel of the type joins the pair.
GraphAutomorphisms ==
  { to_perm(p, num_processors) :
      p \in { q \in Bijections(Processors) :
                /\ \A v \in Processors : TypeOf(q[v]) = TypeOf(v)
                /\ \A c \in 0..(channel_types - 1), u, v \in Processors :
                     Joined(c, u, v) <=> Joined(c, q[u], q[v]) } }

\* C7: the group stored by complete() is exactly the set of processor
\* permutations that keep every processor's type and, per channel type and
\* pair of processors, whether a channel of the type joins them, also when
\* two processors are joined by several channels of different types.
C7_StoredGroupIsAutomorphismGroup ==
  (last_op = "complete" /\ thrown = "none") => automorphisms = GraphAutomorphisms

C9_FixtureGroupOrder ==
  (setup_pc = Len(SetUpScript) /\ last_op = "complete")
    => (automorphisms_valid /\ Cardinality(automorphisms) = 576)

\* C9 witness: complete() has run on the whole fixture, 8 processors and
\* 92 channels.
C9_Witness ==
  /\ setup_pc = Len(SetUpScript)
  /\ last_op = "complete"
  /\ num_processors = 8
  /\ num_channels = 92
  /\ processor_type_instances = << 4, 4 >>
  /\ channel_type_instances = << 8, 20, 64 >>

\* C10: in every state reached by new_processor_type, new_channel_type,
\* add_processor, add_channel and complete calls, automorphisms marked
\* valid are the automorphism group of the current graph.
C10_ValidGroupIsCurrent ==
  automorphisms_valid => automorphisms = GraphAutomorphisms

\* The part of C10 that is about the flag: automorphisms marked valid are
\* the group that complete() computes for the current graph, add_processor
\* and add_channel clear the flag, complete() sets it and changes nothing
\* when it is set.
ValidFlagDiscipline ==
  /\ automorphisms_valid => automorphisms = complete_group
  /\ last_op \in { "add_processor", "add_channel" } => ~automorphisms_valid
  /\ last_op = "complete" => automorphisms_valid

CompleteIdempotent ==
  [][(automorphisms_valid /\ last_op' = "complete")
       => UNCHANGED << automorphisms, automorphisms_valid, adj,
                       processor_type_instances, channel_type_instances >>]_vars

\* ------------------------------------------------------------------------
\* BSGS and PermGroup::const_iterator
\* ------------------------------------------------------------------------

\* Bounds of the groups iterated: the degree of the generating sets that
\* are enumerated exhaustively, and their size.
MaxIterDegree == 3

MaxIterGenerators == 2

\* All permutations of 1..n, as sequences.
Perms(n) == { p \in [ 1..n -> 1..n ] : \A i, j \in 1..n : p[i] = p[j] => i = j }

\* The subsets of S with at most k elements.
SubsetsUpTo(S, k) == { T \in SUBSET S : Cardinality(T) <= k }

\* The elements of G that fix every point of pts.
Stabilizer(G, pts) == { g \in G : \A b \in pts : g[b] = b }

\* The orbit of the point b under the set of permutations G, a group.
PointOrbit(G, b) == { g[b] : g \in G }

\* The base of the BSGS: the points, in ascending order from b on, whose
\* orbit under the stabilizer of the base points before them is not the
\* point alone (the base has no redundant point).
RECURSIVE bsgs_base(_, _, _, _)
bsgs_base(G, degree, b, before) ==
  IF b > degree THEN <<>>
  ELSE IF Cardinality(PointOrbit(Stabilizer(G, before), b)) > 1
    THEN <<b>> \o bsgs_base(G, degree, b + 1, before \cup {b})
    ELSE bsgs_base(G, degree, b + 1, before)

\* The transversal of level i: for every point of the fundamental orbit of
\* the base point, in ascending order, an element of the stabilizer of the
\* earlier base points that takes the base point to it; the identity for
\* the base point itself.
bsgs_transversals(G, degree, base, i) ==
  LET Gi == Stabilizer(G, { base[j] : j \in 1..(i - 1) })
      points == SortedSeq({ <<x>> : x \in PointOrbit(Gi, base[i]) })
  IN  [ k \in 1..Len(points) |->
          IF points[k][1] = base[i] THEN IdPerm(degree)
          ELSE CHOOSE u \in Gi : u[base[i]] = points[k][1] ]

\* The BSGS of the group generated by gens.
BSGS(degree, gens) ==
  LET G == GroupElements(degree, gens)
      base == bsgs_base(G, degree, 1, {})
  IN  [ degree |-> degree,
        base |-> base,
        transversals |-> [ i \in 1..Len(base) |-> bsgs_transversals(G, degree, base, i) ] ]

\* BSGS::order(): the product of the sizes of the fundamental orbits.
RECURSIVE bsgs_order(_, _)
bsgs_order(transversals, i) ==
  IF i > Len(transversals) THEN 1
  ELSE Len(transversals[i]) * bsgs_order(transversals, i + 1)

\* PermGroup::order().
order(bsgs) == bsgs_order(bsgs.transversals, 1)

\* const_iterator(pg): _trivial, and position 0 in every transversal.
iterator_trivial(bsgs) == bsgs.base = <<>>

iterator_begin_state(bsgs) == [ i \in 1..Len(bsgs.base) |-> 0 ]

\* update_current_result: the product factors[1] * factors[2] * ... of
\* the factors, the representative at position state[i] of every
\* transversal; the factor of the deepest level acts first.
RECURSIVE factors_product(_, _, _)
factors_product(bsgs, state, i) ==
  IF i > Len(state) THEN IdPerm(bsgs.degree)
  ELSE Compose(bsgs.transversals[i][state[i] + 1],
               factors_product(bsgs, state, i + 1))

update_current_result(bsgs, state) == factors_product(bsgs, state, 1)

\* next_state from digit i on: the digit is incremented and wraps to 0 at
\* the size of its transversal, the carry goes on to the next digit; the
\* end is reached when the last digit wraps.
RECURSIVE next_state_carry(_, _, _)
next_state_carry(bsgs, state, i) ==
  LET digit == (state[i] + 1) % Len(bsgs.transversals[i])
      incremented == [ state EXCEPT ![i] = digit ]
  IN  IF digit # 0 THEN [ state |-> incremented, end |-> FALSE ]
      ELSE IF i = Len(state) THEN [ state |-> incremented, end |-> TRUE ]
      ELSE next_state_carry(bsgs, incremented, i + 1)

\* A plausible slip: no carry, the end is reached when the first digit
\* wraps.
next_state_no_carry(bsgs, state) ==
  LET digit == (state[1] + 1) % Len(bsgs.transversals[1])
  IN  [ state |-> [ state EXCEPT ![1] = digit ], end |-> digit = 0 ]

\* next_state.
next_state(bsgs, state) == next_state_carry(bsgs, state, 1)

\* The generating sets of the groups iterated: every set of at most
\* MaxIterGenerators permutations of every degree up to MaxIterDegree, and
\* generating sets of the cyclic, Klein, dihedral, alternating and
\* symmetric groups of degree 4.
IterGroups ==
  UNION { { [ degree |-> n, gens |-> SortedSeq(S) ] :
              S \in SubsetsUpTo(Perms(n), MaxIterGenerators) } :
          n \in 1..MaxIterDegree }
  \cup { [ degree |-> 4, gens |-> gens ] :
           gens \in { << <<2, 3, 4, 1>> >>,
                      << <<2, 1, 4, 3>>, <<3, 4, 1, 2>> >>,
                      << <<2, 3, 4, 1>>, <<1, 4, 3, 2>> >>,
                      << <<2, 3, 1, 4>>, <<1, 3, 4, 2>> >>,
                      << <<2, 1, 3, 4>>, <<2, 3, 4, 1>> >> } }

IterInit ==
  /\ it_group \in IterGroups
  /\ it_state = iterator_begin_state(BSGS(it_group.degree, it_group.gens))
  /\ it_end = FALSE
  /\ it_yielded = <<>>

\* One turn of for (it = pg.begin(); it != pg.end(); ++it): the element
\* is read, then the iterator is incremented.
Iterate ==
  LET bsgs == BSGS(it_group.degree, it_group.gens)
  IN  /\ ~it_end
      /\ it_yielded' = Append(it_yielded, update_current_result(bsgs, it_state))
      /\ IF iterator_trivial(bsgs)
           THEN it_end' = TRUE /\ UNCHANGED it_state
           ELSE LET next == next_state(bsgs, it_state)
                IN  it_state' = next.state /\ it_end' = next.end
      /\ UNCHANGED << it_group, reprVars, archVars, prodVars, clusterVars,
                      queueVars, parseVars, ppermVars >>

InitIter ==
  IterInit /\ ReprIdle /\ ArchInit /\ ProdIdle /\ ClusterIdle /\ QueueIdle
           /\ ParseIdle /\ PPermIdle

IterNext == Iterate

SpecIter == InitIter /\ [][IterNext]_vars

\* C11: iterating PermGroup(n, S) from begin() to end() yields every
\* element of the group generated by S exactly once, so the number of
\* elements yielded equals order().
C11_IterationYieldsEachElementOnce ==
  LET G == GroupElements(it_group.degree, it_group.gens)
  IN  /\ \A j, k \in DOMAIN it_yielded : it_yielded[j] = it_yielded[k] => j = k
      /\ Range(it_yielded) \subseteq G
      /\ it_end => /\ Range(it_yielded) = G
                   /\ Len(it_yielded) = order(BSGS(it_group.degree, it_group.gens))

\* C11 witness: the iteration over S4 has reached end() after 24 elements
\* read through three transversals.
C11_Witness ==
  /\ it_end
  /\ Len(it_yielded) = 24
  /\ Len(it_state) = 3

\* ------------------------------------------------------------------------
\* PermGroup::direct_product
\* ------------------------------------------------------------------------

\* The largest number of groups passed to direct_product.
MaxFactors == 3

\* Perm::shifted(k): the permutation acts on the points from k on as perm
\* acts on the points from 0 on, and fixes the points below k.
shifted(perm, k) ==
  [ i \in 1..(Len(perm) + k) |-> IF i <= k THEN i ELSE perm[i - k] + k ]

\* Perm::extended(n): the permutation fixes the points from its degree on.
extended(perm, n) ==
  [ i \in 1..n |-> IF i <= Len(perm) THEN perm[i] ELSE i ]

\* The first loop of direct_product: total_degree after the groups from i on.
RECURSIVE direct_product_total_degree(_, _)
direct_product_total_degree(factors, i) ==
  IF i > Len(factors) THEN 0
  ELSE factors[i].degree + direct_product_total_degree(factors, i + 1)

\* The generators one group contributes, in the order of its generators().
direct_product_insert(gens, current_degree, total_degree) ==
  [ j \in 1..Len(gens) |-> extended(shifted(gens[j], current_degree), total_degree) ]

\* The second loop without "current_degree += it->degree()".
RECURSIVE direct_product_generators_unshifted(_, _, _, _)
direct_product_generators_unshifted(factors, i, current_degree, total_degree) ==
  IF i > Len(factors) THEN <<>>
  ELSE direct_product_insert(factors[i].gens, current_degree, total_degree)
       \o direct_product_generators_unshifted(factors, i + 1, current_degree, total_degree)

\* The second loop of direct_product from the group i on: every generator
\* is shifted by current_degree, the degrees of the groups before its own.
RECURSIVE direct_product_generators(_, _, _, _)
direct_product_generators(factors, i, current_degree, total_degree) ==
  IF i > Len(factors) THEN <<>>
  ELSE direct_product_insert(factors[i].gens, current_degree, total_degree)
       \o direct_product_generators(factors, i + 1,
                                    current_degree + factors[i].degree, total_degree)

\* direct_product(first, last): the group of the total degree that the
\* shifted generators generate, with the order its BSGS gives.
direct_product(factors) ==
  LET total_degree == direct_product_total_degree(factors, 1)
      generators == direct_product_generators(factors, 1, 0, total_degree)
  IN  [ status |-> "returned",
        degree |-> total_degree,
        gens |-> generators,
        order |-> order(BSGS(total_degree, generators)) ]

\* The groups passed to direct_product: the trivial group of degree 1, S2,
\* the cyclic group of order 3, S3 and the Klein four-group of degree 4.
ProdGroups ==
  { [ degree |-> 1, gens |-> <<>> ],
    [ degree |-> 2, gens |-> << <<2, 1>> >> ],
    [ degree |-> 3, gens |-> << <<2, 3, 1>> >> ],
    [ degree |-> 3, gens |-> << <<2, 3, 1>>, <<1, 3, 2>> >> ],
    [ degree |-> 4, gens |-> << <<2, 1, 4, 3>>, <<3, 4, 1, 2>> >> ] }

\* The caller has a non-empty range of groups (the assertion of
\* direct_product) and has not called yet.
InitProd ==
  /\ dp_factors \in SeqsUpTo(ProdGroups, MaxFactors) \ { <<>> }
  /\ dp_result = NotCalled
  /\ ReprIdle /\ ArchInit
  /\ IterIdle /\ ClusterIdle /\ QueueIdle /\ ParseIdle /\ PPermIdle

\* One call of direct_product.
DirectProduct ==
  /\ dp_result = NotCalled
  /\ dp_result' = direct_product(dp_factors)
  /\ UNCHANGED << dp_factors, reprVars, archVars, iterVars, clusterVars,
                  queueVars, parseVars, ppermVars >>

ProdNext == DirectProduct

SpecProd == InitProd /\ [][ProdNext]_vars

\* The product of the orders of the groups from i on.
RECURSIVE FactorOrders(_, _)
FactorOrders(factors, i) ==
  IF i > Len(factors) THEN 1
  ELSE order(BSGS(factors[i].degree, factors[i].gens)) * FactorOrders(factors, i + 1)

\* C12: the order of direct_product(G_1, ..., G_k) is the product of the
\* orders of G_1, ..., G_k, and it is the number of elements the returned
\* generators generate.
C12_ProductOrder ==
  dp_result.status = "returned" =>
    /\ dp_result.order = FactorOrders(dp_factors, 1)
    /\ dp_result.order =
         Cardinality(GroupElements(dp_result.degree, dp_result.gens))

\* symmetric(3) x symmetric(2) has order 12.
C12_Witness ==
  /\ dp_result.status = "returned"
  /\ dp_factors = << [ degree |-> 3, gens |-> << <<2, 3, 1>>, <<1, 3, 2>> >> ],
                     [ degree |-> 2, gens |-> << <<2, 1>> >> ] >>
  /\ dp_result.order = 12

\* ------------------------------------------------------------------------
\* ArchGraphCluster
\* ------------------------------------------------------------------------

\* The largest number of subsystems of a cluster.
MaxSubsystems == 3

\* The largest processor number and the most tasks of a mapping submitted
\* to a cluster.
ClusterMaxPe == 6

ClusterMaxTasks == 2

\* The largest options_->offset of the caller of a cluster.
ClusterMaxOffset == 1

\* The subsystems added to a cluster: architectures whose automorphisms
\* are the groups of degree 2 and 3 of ReprGroups, on as many processors.
Subsystems ==
  { [ num_processors |-> ReprGroups[g].degree, grp |-> g ] :
      g \in { g \in DOMAIN ReprGroups : ReprGroups[g].degree <= 3 } }

\* The mappings submitted to a cluster and the contents of the cache
\* before the call.
ClusterMappings == SeqsUpTo(0..ClusterMaxPe, ClusterMaxTasks)

ClusterCaches == { <<>>, << <<0, 0>> >>, << <<1>>, <<4, 0>> >> }

\* ArchGraphCluster(): no subsystems; the caller's offset and cache.
ClusterInit ==
  /\ cl_subsystems = <<>>
  /\ cl_offset \in 0..ClusterMaxOffset
  /\ cl_orbits \in ClusterCaches
  /\ cl_trace = <<>>
  /\ cl_result = NotCalled

\* subsystem->automorphisms(): the group of a subsystem, degree and
\* generators().
subsystem_automorphisms(subsystem) == ReprGroups[subsystem.grp]

\* A plausible slip: the method of the options is dropped, every
\* subsystem runs the local search.
subsystem_repr_local_search(subsystem, tasks, orbits_ptr, method, opt_offset) ==
  min_elem_local_search(tasks, opt_offset, ReprGroups[subsystem.grp].gens)

\* subsystem->repr(mapping, orbits, options) of a subsystem that is an
\* architecture graph: the dispatch on options->method at options->offset.
subsystem_repr(subsystem, tasks, orbits_ptr, method, opt_offset) ==
  LET g == subsystem.grp
  IN  IF method = "ITERATE"
        THEN min_elem_iterate(tasks, opt_offset, orbits_ptr,
                              SortedSeq(ReprGroupElements[g]))
      ELSE IF method = "LOCAL_SEARCH"
        THEN min_elem_local_search(tasks, opt_offset, ReprGroups[g].gens)
      ELSE min_elem_orbits(tasks, opt_offset, orbits_ptr, ReprGroups[g].gens)

\* A plausible slip: the loop of repr_ without
\* "options.offset += _subsystems[i]->num_processors()".
RECURSIVE cluster_repr_loop_fixed_offset(_, _, _, _, _)
cluster_repr_loop_fixed_offset(subsystems, i, mapping_, opt_offset, method) ==
  IF i > Len(subsystems) THEN [ mapping |-> mapping_, trace |-> <<>> ]
  ELSE LET result == subsystem_repr(subsystems[i], mapping_, NullOrbits,
                                    method, opt_offset)
           rest == cluster_repr_loop_fixed_offset(subsystems, i + 1, result,
                                                  opt_offset, method)
       IN  [ mapping |-> rest.mapping,
             trace |-> << [ child |-> i, mapping |-> mapping_,
                            orbits |-> NullOrbits, offset |-> opt_offset,
                            result |-> result ] >> \o rest.trace ]

\* The loop of repr_ from the subsystem i on: the mapping after the last
\* subsystem and the calls made, each with its arguments and its result.
RECURSIVE cluster_repr_loop(_, _, _, _, _)
cluster_repr_loop(subsystems, i, mapping_, opt_offset, method) ==
  IF i > Len(subsystems) THEN [ mapping |-> mapping_, trace |-> <<>> ]
  ELSE LET result == subsystem_repr(subsystems[i], mapping_, NullOrbits,
                                    method, opt_offset)
           rest == cluster_repr_loop(subsystems, i + 1, result,
                                     opt_offset + subsystems[i].num_processors,
                                     method)
       IN  [ mapping |-> rest.mapping,
             trace |-> << [ child |-> i, mapping |-> mapping_,
                            orbits |-> NullOrbits, offset |-> opt_offset,
                            result |-> result ] >> \o rest.trace ]

\* A plausible slip: repr_ without the check for an empty cluster.
cluster_repr_unchecked(mapping_, orbits_ptr, method) ==
  LET loop == cluster_repr_loop(cl_subsystems, 1, mapping_, cl_offset, method)
  IN  /\ cl_trace' = loop.trace
      /\ cl_orbits' = IF orbits_ptr.present
                        THEN orbits_insert(cl_orbits, loop.mapping)
                        ELSE cl_orbits
      /\ cl_result' = [ status |-> "returned", op |-> "repr",
                        mapping_ |-> mapping_, orbits |-> orbits_ptr,
                        method |-> method, mapping |-> loop.mapping ]

\* ArchGraphCluster::repr_(mapping_, orbits, options_); the result keeps
\* the arguments of the call, orbits being null or the cache as passed.
cluster_repr(mapping_, orbits_ptr, method) ==
  IF cl_subsystems = <<>>
    THEN /\ cl_result' = [ status |-> "logic_error", op |-> "repr",
                           mapping_ |-> mapping_, orbits |-> orbits_ptr,
                           method |-> method ]
         /\ UNCHANGED << cl_trace, cl_orbits >>
    ELSE LET loop == cluster_repr_loop(cl_subsystems, 1, mapping_, cl_offset,
                                       method)
         IN  /\ cl_trace' = loop.trace
             /\ cl_orbits' = IF orbits_ptr.present
                               THEN orbits_insert(cl_orbits, loop.mapping)
                               ELSE cl_orbits
             /\ cl_result' = [ status |-> "returned", op |-> "repr",
                               mapping_ |-> mapping_, orbits |-> orbits_ptr,
                               method |-> method, mapping |-> loop.mapping ]

\* ArchGraphCluster::automorphisms_(options): the direct product of the
\* subsystems' groups, in the order of _subsystems.
cluster_automorphisms ==
  IF cl_subsystems = <<>>
    THEN /\ cl_result' = [ status |-> "logic_error", op |-> "automorphisms" ]
         /\ UNCHANGED prodVars
    ELSE LET automorphisms_ == [ i \in DOMAIN cl_subsystems |->
                                   subsystem_automorphisms(cl_subsystems[i]) ]
         IN  /\ dp_factors' = automorphisms_
             /\ dp_result' = direct_product(automorphisms_)
             /\ cl_result' = [ status |-> "returned", op |-> "automorphisms" ]

\* ArchGraphCluster::add_subsystem(ags).
AddSubsystem ==
  /\ cl_result = NotCalled
  /\ Len(cl_subsystems) < MaxSubsystems
  /\ \E ags \in Subsystems : cl_subsystems' = Append(cl_subsystems, ags)
  /\ UNCHANGED << cl_offset, cl_orbits, cl_trace, cl_result, prodVars,
                  reprVars, archVars, iterVars, queueVars, parseVars, ppermVars >>

\* A call of repr_, with the cache or with a null pointer.
ClusterRepr ==
  /\ cl_result = NotCalled
  /\ \E mapping_ \in ClusterMappings, method \in Methods, cached \in BOOLEAN :
       cluster_repr(mapping_,
                    IF cached THEN SomeOrbits(cl_orbits) ELSE NullOrbits,
                    method)
  /\ UNCHANGED << cl_subsystems, cl_offset, prodVars,
                  reprVars, archVars, iterVars, queueVars, parseVars, ppermVars >>

\* A call of automorphisms_.
ClusterAutomorphisms ==
  /\ cl_result = NotCalled
  /\ cluster_automorphisms
  /\ UNCHANGED << cl_subsystems, cl_offset, cl_orbits, cl_trace,
                  reprVars, archVars, iterVars, queueVars, parseVars, ppermVars >>

\* The loop of ArchGraphCluster::mapping from the subsystem i on: every
\* subsystem maps the equivalence class the one before it returned.
RECURSIVE cluster_mapping_loop(_, _, _, _, _)
cluster_mapping_loop(subsystems, i, res, offs, mapping_variant) ==
  IF i > Len(subsystems) THEN [ mapping |-> res, trace |-> <<>> ]
  ELSE LET g == subsystems[i].grp
           next_offs == offs + subsystems[i].num_processors
           result == mapping_result(SortedSeq(ReprGroupElements[g]),
                                    ReprGroups[g].gens,
                                    subsystems[i].num_processors,
                                    res, offs, mapping_variant)
           rest == cluster_mapping_loop(subsystems, i + 1, result, next_offs,
                                        mapping_variant)
       IN  [ mapping |-> rest.mapping,
             trace |-> << [ child |-> i, mapping |-> res,
                            orbits |-> NullOrbits, offset |-> offs,
                            result |-> result ] >> \o rest.trace ]

\* ArchGraphCluster::mapping(tasks, offset, mapping_variant) of a cluster
\* with subsystems (the assertion of the function).
cluster_mapping(tasks, mapping_variant) ==
  LET loop == cluster_mapping_loop(cl_subsystems, 1, tasks, cl_offset,
                                   mapping_variant)
  IN  /\ cl_trace' = loop.trace
      /\ cl_result' = [ status |-> "returned", op |-> "mapping",
                        mapping_ |-> tasks, orbits |-> NullOrbits,
                        method |-> mapping_variant, mapping |-> loop.mapping ]

\* A call of the old interface on a cluster.
ClusterMapping ==
  /\ cl_result = NotCalled
  /\ cl_subsystems # <<>>
  /\ \E tasks \in ClusterMappings, mapping_variant \in MappingVariants :
       cluster_mapping(tasks, mapping_variant)
  /\ UNCHANGED << cl_subsystems, cl_offset, cl_orbits, prodVars,
                  reprVars, archVars, iterVars, queueVars, parseVars, ppermVars >>

InitCluster ==
  /\ ClusterInit
  /\ ReprIdle /\ ArchInit
  /\ IterIdle /\ ProdIdle /\ QueueIdle /\ ParseIdle /\ PPermIdle

ClusterNext ==
  AddSubsystem \/ ClusterRepr \/ ClusterAutomorphisms \/ ClusterMapping

SpecCluster == InitCluster /\ [][ClusterNext]_vars

\* The degrees of the groups before the group i.
RECURSIVE DegreesBefore(_, _)
DegreesBefore(factors, i) ==
  IF i <= 1 THEN 0 ELSE factors[i - 1].degree + DegreesBefore(factors, i - 1)

\* The numbers of generators of the groups before the group i.
RECURSIVE GeneratorsBefore(_, _)
GeneratorsBefore(factors, i) ==
  IF i <= 1 THEN 0 ELSE Len(factors[i - 1].gens) + GeneratorsBefore(factors, i - 1)

\* C13: the direct product (so the automorphisms of a cluster) has the sum
\* of the factors' degrees as its degree, and its generating set holds, for
\* every factor in the given order, the factor's generators moved to the
\* points from the sum of the degrees before it on, fixing all other
\* points; it holds nothing else.
C13_ProductGenerators ==
  dp_result.status = "returned" =>
    LET k == Len(dp_factors)
        total == DegreesBefore(dp_factors, k + 1)
    IN  /\ dp_result.degree = total
        /\ Len(dp_result.gens) = GeneratorsBefore(dp_factors, k + 1)
        /\ \A i \in 1..k : \A j \in 1..Len(dp_factors[i].gens) :
             LET first == DegreesBefore(dp_factors, i)
                 gen == dp_result.gens[GeneratorsBefore(dp_factors, i) + j]
             IN  /\ Len(gen) = total
                 /\ \A x \in 0..(total - 1) :
                      At0(gen, x) =
                        IF first <= x /\ x < first + dp_factors[i].degree
                          THEN At0(dp_factors[i].gens[j], x - first) + first
                          ELSE x

\* A cluster of three subsystems of unequal degrees has returned its
\* automorphisms.
C13_Witness ==
  /\ cl_result.status = "returned"
  /\ cl_result.op = "automorphisms"
  /\ dp_result.status = "returned"
  /\ Len(dp_factors) = 3
  /\ dp_factors[1].degree = 2
  /\ dp_factors[2].degree = 3
  /\ Len(dp_result.gens) >= 4

\* C14: a call of automorphisms or repr on a cluster without subsystems
\* fails with an error, and leaves the cache and the subsystems' calls as
\* they were.
C14_EmptyClusterFails ==
  [][ (cl_subsystems = <<>> /\ cl_result' # cl_result) =>
        /\ cl_result'.status = "logic_error"
        /\ cl_orbits' = cl_orbits
        /\ cl_trace' = cl_trace
        /\ dp_result' = dp_result ]_vars

\* repr has failed on an empty cluster that was given a cache holding
\* representatives.
C14_Witness ==
  /\ cl_subsystems = <<>>
  /\ cl_result.status = "logic_error"
  /\ cl_result.op = "repr"
  /\ cl_result.orbits.present
  /\ Len(cl_orbits) = 2

\* C15: repr on a cluster calls the subsystems in the order of their
\* insertion, once each: the first on the caller's mapping, every later one
\* on the result of the one before it, the subsystem i at the caller's
\* offset plus the processors of the subsystems before i, none with the
\* cache; the result is the last subsystem's, and the cache holds what it
\* held at the call and that result, once.
C15_ClusterReprChain ==
  (cl_result.status = "returned" /\ cl_result.op = "repr") =>
    /\ Len(cl_trace) = Len(cl_subsystems)
    /\ \A i \in DOMAIN cl_trace :
         /\ cl_trace[i].child = i
         /\ cl_trace[i].mapping =
              IF i = 1 THEN cl_result.mapping_ ELSE cl_trace[i - 1].result
         /\ cl_trace[i].offset =
              cl_offset + SumUpTo([ j \in DOMAIN cl_subsystems |->
                                      cl_subsystems[j].num_processors ], i - 1)
         /\ ~cl_trace[i].orbits.present
         /\ cl_trace[i].result =
              subsystem_repr(cl_subsystems[i], cl_trace[i].mapping, NullOrbits,
                             cl_result.method, cl_trace[i].offset)
    /\ cl_result.mapping = cl_trace[Len(cl_trace)].result
    /\ cl_orbits =
         IF ~cl_result.orbits.present THEN cl_orbits
         ELSE IF cl_result.mapping \in Range(cl_result.orbits.reprs)
           THEN cl_result.orbits.reprs
         ELSE Append(cl_result.orbits.reprs, cl_result.mapping)
    /\ \A j, k \in DOMAIN cl_orbits : cl_orbits[j] = cl_orbits[k] => j = k

\* A cached call on a cluster of three subsystems, where the third
\* subsystem changed the mapping and the result is new to the cache.
C15_Witness ==
  /\ cl_result.status = "returned"
  /\ cl_result.op = "repr"
  /\ cl_result.orbits.present
  /\ Len(cl_trace) = 3
  /\ cl_trace[3].result # cl_trace[3].mapping
  /\ cl_trace[1].result # cl_trace[1].mapping
  /\ Len(cl_orbits) = Len(cl_result.orbits.reprs) + 1

\* ------------------------------------------------------------------------
\* SchreierGeneratorQueue
\* ------------------------------------------------------------------------

\* The degree of the permutations of a queue and the most strong
\* generators it is given.
QueueDegree == 3

QueueMaxGenerators == 2

\* How far past the end of the strong generators the model follows _sg_it.
QueueMaxPastEnd == 2

\* Perm::operator~: the inverse of a permutation.
Inverse(p) == [ i \in DOMAIN p |-> CHOOSE j \in DOMAIN p : p[j] = i ]

\* SchreierStructure, built breadth-first from the root: the points of
\* the orbit in the order they are found, for each point the generator
\* that found it (0 for the root) and u_x, which maps the root to x.
RECURSIVE schreier_structure_extend(_, _, _, _)
schreier_structure_extend(st, gens, i, j) ==
  IF i > Len(st.orbit) THEN st
  ELSE IF j > Len(gens) THEN schreier_structure_extend(st, gens, i + 1, 1)
  ELSE LET x == st.orbit[i]
           y == gens[j][x]
       IN  IF y \in Range(st.orbit)
             THEN schreier_structure_extend(st, gens, i, j + 1)
             ELSE schreier_structure_extend(
                    [ st EXCEPT !.orbit = Append(@, y),
                                !.labels[y] = j,
                                !.transversals[y] = Compose(gens[j], st.transversals[x]) ],
                    gens, i, j + 1)

schreier_structure(root, gens) ==
  schreier_structure_extend(
    [ root |-> root,
      gens |-> gens,
      orbit |-> << root >>,
      labels |-> [ x \in 1..QueueDegree |-> 0 ],
      transversals |-> [ x \in 1..QueueDegree |-> IdPerm(QueueDegree) ] ],
    gens, 1, 1)

\* SchreierStructure::transversal(x) and incoming(x, g).
transversal(st, x) == st.transversals[x]

incoming(st, x, g) == st.labels[x] # 0 /\ st.gens[st.labels[x]] = g

\* The arguments of the constructor and of update: non-empty strong
\* generators of a level, the fundamental orbit of its base point and the
\* Schreier structure of that level.
QueueInputs ==
  { [ strong_generators |-> gens,
      fundamental_orbit |-> schreier_structure(root, gens).orbit,
      schreier_structure |-> schreier_structure(root, gens) ] :
      gens \in { s \in SeqsUpTo(Perms(QueueDegree) \ { IdPerm(QueueDegree) },
                                QueueMaxGenerators) :
                   /\ s # <<>>
                   /\ \A j, k \in DOMAIN s : s[j] = s[k] => j = k },
      root \in 1..QueueDegree }

\* u_beta() and u_beta_x().
u_beta(q) == transversal(q.schreier_structure, q.fundamental_orbit[q.beta_it])

u_beta_x(q) ==
  transversal(q.schreier_structure,
              q.strong_generators[q.sg_it][q.fundamental_orbit[q.beta_it]])

\* SchreierGeneratorQueue(strong_generators, fundamental_orbit,
\* schreier_structure); the cursors are positions, the end being one past
\* the last.
schreier_generator_queue(in) ==
  LET q == [ strong_generators |-> in.strong_generators,
             fundamental_orbit |-> in.fundamental_orbit,
             schreier_structure |-> in.schreier_structure,
             sg_it |-> 1,
             beta_it |-> 1,
             valid |-> FALSE,
             used |-> FALSE,
             exhausted |-> FALSE,
             u_beta |-> << 1 >>,
             schreier_generator |-> << 1 >> ]
  IN  [ q EXCEPT !.u_beta = u_beta(q) ]

\* A plausible slip: update without "if (_valid) return".
update_always(q, in) ==
  LET q1 == [ q EXCEPT !.strong_generators = in.strong_generators,
                       !.fundamental_orbit = in.fundamental_orbit,
                       !.schreier_structure = in.schreier_structure,
                       !.sg_it = 1,
                       !.beta_it = 1 ]
  IN  [ q1 EXCEPT !.u_beta = u_beta(q1),
                  !.valid = TRUE,
                  !.used = FALSE,
                  !.exhausted = FALSE ]

\* update(strong_generators, fundamental_orbit, schreier_structure).
update(q, in) ==
  IF q.valid THEN q
  ELSE LET q1 == [ q EXCEPT !.strong_generators = in.strong_generators,
                            !.fundamental_orbit = in.fundamental_orbit,
                            !.schreier_structure = in.schreier_structure,
                            !.sg_it = 1,
                            !.beta_it = 1 ]
       IN  [ q1 EXCEPT !.u_beta = u_beta(q1),
                       !.valid = TRUE,
                       !.used = FALSE,
                       !.exhausted = FALSE ]

\* invalidate().
invalidate(q) == [ q EXCEPT !.valid = FALSE ]

\* next_beta().
next_beta(q) ==
  LET q1 == [ q EXCEPT !.beta_it = @ + 1 ]
  IN  IF q1.beta_it = Len(q.fundamental_orbit) + 1
        THEN [ q1 EXCEPT !.exhausted = TRUE ]
        ELSE LET q2 == [ q1 EXCEPT !.sg_it = 1 ]
             IN  [ q2 EXCEPT !.u_beta = u_beta(q2) ]

\* next_sg().
next_sg(q) ==
  LET q1 == [ q EXCEPT !.sg_it = @ + 1 ]
  IN  IF q1.sg_it = Len(q.strong_generators) + 1 THEN next_beta(q1) ELSE q1

\* The loop of advance: "while (!_exhausted && incoming(*_beta_it,
\* *_sg_it)) next_sg()".
RECURSIVE advance_skip(_)
advance_skip(q) ==
  IF /\ ~q.exhausted
     /\ incoming(q.schreier_structure, q.fundamental_orbit[q.beta_it],
                 q.strong_generators[q.sg_it])
    THEN advance_skip(next_sg(q))
    ELSE q

\* The end of advance: the Schreier generator of the pair under the
\* cursors, unless the queue is exhausted.
advance_generator(q) ==
  IF q.exhausted THEN q
  ELSE [ q EXCEPT !.schreier_generator =
                     Compose(Compose(q.u_beta, q.strong_generators[q.sg_it]),
                             Inverse(u_beta_x(q))) ]

\* A plausible slip: advance without the loop that skips incoming labels.
advance_unskipped(q) ==
  advance_generator(IF q.used THEN next_sg(q) ELSE q)

\* advance().
advance(q) ==
  advance_generator(advance_skip(IF q.used THEN next_sg(q) ELSE q))

\* A plausible slip: begin() does not record that the pair under the
\* cursors has been handed out.
mark_used_dropped(q) == q

\* mark_used().
mark_used(q) == [ q EXCEPT !.used = TRUE ]

\* iterator::end() of an iterator made by begin().
iterator_end(q) == q.exhausted

\* What the loop reads through the iterator after a step: the Schreier
\* generator with the pair it was computed for, or nothing at the end.
read(pass, q) ==
  IF iterator_end(q) THEN pass
  ELSE [ pass EXCEPT !.yielded =
           Append(@, [ beta_it |-> q.beta_it, sg_it |-> q.sg_it,
                       perm |-> q.schreier_generator ]) ]

\* The queue as constructed.
QueueInit ==
  /\ sgq \in { schreier_generator_queue(in) : in \in QueueInputs }
  /\ sgq_pass = [ yielded |-> <<>> ]

InitQueue ==
  /\ QueueInit
  /\ ReprIdle /\ ArchInit
  /\ IterIdle /\ ProdIdle /\ ClusterIdle /\ ParseIdle /\ PPermIdle

\* A call of update; an update that takes effect starts a new pass.
Update ==
  /\ \E in \in QueueInputs :
       /\ sgq' = update(sgq, in)
       /\ sgq_pass' = IF sgq.valid THEN sgq_pass ELSE [ yielded |-> <<>> ]
  /\ UNCHANGED << reprVars, archVars, iterVars, prodVars, clusterVars,
                  parseVars, ppermVars >>

\* A call of invalidate.
Invalidate ==
  /\ sgq.valid
  /\ sgq' = invalidate(sgq)
  /\ UNCHANGED << sgq_pass, reprVars, archVars, iterVars, prodVars,
                  clusterVars, parseVars, ppermVars >>

\* begin(): iterator(this).
Begin ==
  /\ sgq.sg_it < Len(sgq.strong_generators) + QueueMaxPastEnd
  /\ sgq' = mark_used(advance(sgq))
  /\ sgq_pass' = read(sgq_pass, sgq')
  /\ UNCHANGED << reprVars, archVars, iterVars, prodVars, clusterVars,
                  parseVars, ppermVars >>

\* iterator::operator++ on an iterator made by begin().
Increment ==
  /\ sgq.used
  /\ sgq.sg_it < Len(sgq.strong_generators) + QueueMaxPastEnd
  /\ sgq' = advance(sgq)
  /\ sgq_pass' = read(sgq_pass, sgq')
  /\ UNCHANGED << reprVars, archVars, iterVars, prodVars, clusterVars,
                  parseVars, ppermVars >>

QueueNext == Update \/ Invalidate \/ Begin \/ Increment

SpecQueue == InitQueue /\ [][QueueNext]_vars

\* The pairs (orbit position, generator position), the orbit outer and the
\* generators inner.
QueuePairs(q) ==
  LET ns == Len(q.strong_generators)
  IN  [ k \in 1..(Len(q.fundamental_orbit) * ns) |->
          << ((k - 1) \div ns) + 1, ((k - 1) % ns) + 1 >> ]

\* Whether the generator of a pair is the incoming label of its point.
IsIncomingPair(q, pair) ==
  incoming(q.schreier_structure, q.fundamental_orbit[pair[1]],
           q.strong_generators[pair[2]])

RECURSIVE NotIncoming(_, _, _)
NotIncoming(q, pairs, k) ==
  IF k > Len(pairs) THEN <<>>
  ELSE (IF IsIncomingPair(q, pairs[k]) THEN <<>> ELSE << pairs[k] >>)
       \o NotIncoming(q, pairs, k + 1)

\* C16: the pass over a queue since its construction or its last update
\* that took effect yields, in the order of the orbit (outer) and the
\* strong generators (inner), one element u_b * s * ~u_(s[b]) for each pair
\* (b, s) where s is not the incoming label of b and none for the other
\* pairs: what has been yielded is always the beginning of that list, and
\* all of it once the queue is exhausted.
C16_PassYieldsNonIncomingPairs ==
  LET expected == NotIncoming(sgq, QueuePairs(sgq), 1)
      yielded == sgq_pass.yielded
  IN  /\ Len(yielded) <= Len(expected)
      /\ \A k \in DOMAIN yielded :
           LET b == sgq.fundamental_orbit[expected[k][1]]
               s == sgq.strong_generators[expected[k][2]]
           IN  /\ << yielded[k].beta_it, yielded[k].sg_it >> = expected[k]
               /\ yielded[k].perm =
                    Compose(Compose(transversal(sgq.schreier_structure, b), s),
                            Inverse(transversal(sgq.schreier_structure, s[b])))
      /\ sgq.exhausted => Len(yielded) = Len(expected)

\* A complete pass after an update over two generators and an orbit of
\* three points, which skipped the two incoming labels.
C16_Witness ==
  /\ sgq.valid
  /\ sgq.exhausted
  /\ Len(sgq.strong_generators) = 2
  /\ Len(sgq.fundamental_orbit) = 3
  /\ Len(sgq_pass.yielded) = 4

\* ------------------------------------------------------------------------
\* profile_parse: strings
\* ------------------------------------------------------------------------

\* Strings are sequences of characters.
DigitChars == << "0", "1", "2", "3", "4", "5", "6", "7", "8", "9" >>

IsDigit(c) == c \in Range(DigitChars)

DigitValue(c) == (CHOOSE k \in DOMAIN DigitChars : DigitChars[k] = c) - 1

\* Whether the string s holds the string t from the position i on.
HasAt(s, i, t) ==
  /\ i + Len(t) - 1 <= Len(s)
  /\ \A k \in DOMAIN t : s[i + k - 1] = t[k]

\* The first position from i on that holds no digit: the end of \d*.
RECURSIVE SkipDigits(_, _)
SkipDigits(s, i) ==
  IF i <= Len(s) /\ IsDigit(s[i]) THEN SkipDigits(s, i + 1) ELSE i

\* The strings of a sequence joined, the separator between them.
RECURSIVE Join(_, _)
Join(strs, separator) ==
  IF strs = <<>> THEN <<>>
  ELSE IF Len(strs) = 1 THEN strs[1]
  ELSE strs[1] \o separator \o Join(Tail(strs), separator)

\* std::string::substr(pos, n) with pos as the size_t the call converts it
\* to: a negative int is a position past every string, and a position
\* past the size throws std::out_of_range.
substr(s, pos, n) ==
  IF pos < 0 \/ pos > Len(s) THEN [ status |-> "out_of_range" ]
  ELSE [ status |-> "returned",
         str |-> SubSeq(s, pos + 1, IF pos + n > Len(s) THEN Len(s) ELSE pos + n) ]

\* stox<T>(str): the number a string of digits denotes; any other string
\* throws std::invalid_argument.
RECURSIVE digits_value(_, _)
digits_value(s, acc) ==
  IF s = <<>> THEN acc ELSE digits_value(Tail(s), 10 * acc + DigitValue(s[1]))

stox(s) ==
  IF s = <<>> \/ \E k \in DOMAIN s : ~IsDigit(s[k])
    THEN [ status |-> "invalid_argument" ]
    ELSE [ status |-> "returned", value |-> digits_value(s, 0) ]

\* split(str, delim): the pieces of str between the occurrences of delim.
RECURSIVE split_from(_, _, _, _)
split_from(s, delim, i, piece) ==
  IF i > Len(s) THEN << piece >>
  ELSE IF HasAt(s, i, delim)
    THEN << piece >> \o split_from(s, delim, i + Len(delim), <<>>)
  ELSE split_from(s, delim, i + 1, Append(piece, s[i]))

split(s, delim) == split_from(s, delim, 1, <<>>)

\* ------------------------------------------------------------------------
\* profile_parse: parse_group, parse_generators
\* ------------------------------------------------------------------------

\* The most generators of a group string.
MaxParsedGenerators == 2

\* The end of a match of "(\d+,)+\d+\)" from the position i on, count
\* being the numbers matched before; 0 if there is no match.
RECURSIVE re_cycle_numbers(_, _, _)
re_cycle_numbers(s, i, count) ==
  LET j == SkipDigits(s, i)
  IN  IF j = i \/ j > Len(s) THEN 0
      ELSE IF s[j] = "," THEN re_cycle_numbers(s, j + 1, count + 1)
      ELSE IF s[j] = ")" /\ count >= 1 THEN j + 1
      ELSE 0

\* The end of a match of "\((\d+,)+\d+\)" from the position i on, or 0.
re_cycle(s, i) ==
  IF i <= Len(s) /\ s[i] = "(" THEN re_cycle_numbers(s, i + 1, 0) ELSE 0

\* The end of the longest match of "(cycle)*" from the position i on.
RECURSIVE re_cycles(_, _)
re_cycles(s, i) ==
  LET j == re_cycle(s, i) IN IF j = 0 THEN i ELSE re_cycles(s, j)

\* re_perm, "(\(\)|(cycle)+)": the end of its match from i on, or 0.
re_perm(s, i) ==
  IF HasAt(s, i, << "(", ")" >>) THEN i + 2
  ELSE IF re_cycle(s, i) = 0 THEN 0
  ELSE re_cycles(s, i)

\* The rest of re_generators, "(re_perm,)*(re_perm)?\]", from i on.
RECURSIVE re_generators_from(_, _)
re_generators_from(s, i) ==
  IF i > Len(s) THEN FALSE
  ELSE IF s[i] = "]" THEN i = Len(s)
  ELSE LET j == re_perm(s, i)
       IN  IF j = 0 \/ j > Len(s) THEN FALSE
           ELSE IF s[j] = "," THEN re_generators_from(s, j + 1)
           ELSE s[j] = "]" /\ j = Len(s)

\* std::regex_match(gen_str, re_generators).
re_generators(s) == s # <<>> /\ s[1] = "[" /\ re_generators_from(s, 2)

\* std::regex_match(group_str, m, re_group) with re_group
\* "degree:(\d+),order:(\d+),gens:(.*)": the three submatches.
re_group(s) ==
  LET degree_key == << "d", "e", "g", "r", "e", "e", ":" >>
      order_key == << ",", "o", "r", "d", "e", "r", ":" >>
      gens_key == << ",", "g", "e", "n", "s", ":" >>
      d0 == Len(degree_key) + 1
      d1 == SkipDigits(s, d0)
      o0 == d1 + Len(order_key)
      o1 == SkipDigits(s, o0)
      g0 == o1 + Len(gens_key)
  IN  IF /\ HasAt(s, 1, degree_key) /\ d1 > d0
         /\ HasAt(s, d1, order_key) /\ o1 > o0
         /\ HasAt(s, o1, gens_key)
        THEN [ matched |-> TRUE,
               m |-> << SubSeq(s, d0, d1 - 1), SubSeq(s, o0, o1 - 1),
                        SubSeq(s, g0, Len(s)) >> ]
        ELSE [ matched |-> FALSE ]

\* parse_group(group_str).
parse_group(group_str) ==
  LET match == re_group(group_str)
  IN  IF ~match.matched
        THEN [ status |-> "invalid_argument", what |-> "malformed group expression" ]
      ELSE IF ~re_generators(match.m[3])
        THEN [ status |-> "invalid_argument", what |-> "malformed generator expression" ]
      ELSE [ status |-> "returned",
             degree |-> stox(match.m[1]).value,
             order |-> stox(match.m[2]).value,
             generators |-> match.m[3] ]

\* split_generators(gen_str).
split_generators(gen_str) ==
  LET res == split(substr(gen_str, 1, Len(gen_str) - 2).str, << ")", "," >>)
  IN  [ i \in 1..Len(res) |-> IF i < Len(res) THEN Append(res[i], ")") ELSE res[i] ]

\* The loop of parse_generators over the characters of one generator
\* from the position i on (i counts from 0, as in the code).
RECURSIVE parse_generator_loop(_, _, _, _, _)
parse_generator_loop(gen_str, i, n_beg, cycle, perm) ==
  IF i >= Len(gen_str) THEN [ status |-> "returned", perm |-> perm ]
  ELSE LET c == gen_str[i + 1]
       IN  IF c = "(" THEN parse_generator_loop(gen_str, i + 1, n_beg, <<>>, perm)
           ELSE IF c = "," \/ c = ")"
             THEN LET str == substr(gen_str, n_beg, i - n_beg)
                  IN  IF str.status # "returned" THEN [ status |-> str.status ]
                      ELSE LET n == stox(str.str)
                           IN  IF n.status # "returned" THEN [ status |-> n.status ]
                               ELSE LET pushed == Append(cycle, n.value)
                                    IN  parse_generator_loop(
                                          gen_str, i + 1, -1, pushed,
                                          IF c = ")" THEN Append(perm, pushed) ELSE perm)
           ELSE parse_generator_loop(gen_str, i + 1,
                                     IF n_beg = -1 THEN i ELSE n_beg, cycle, perm)

\* parse_generators(gen_strs) from the generator k on: the generators
\* parsed, or the exception that ended the call.
RECURSIVE parse_generators(_, _)
parse_generators(gen_strs, k) ==
  IF k > Len(gen_strs) THEN [ status |-> "returned", gens |-> <<>> ]
  ELSE LET perm == parse_generator_loop(gen_strs[k], 0, -1, <<>>, <<>>)
       IN  IF perm.status # "returned" THEN [ status |-> perm.status ]
           ELSE LET rest == parse_generators(gen_strs, k + 1)
                IN  IF rest.status # "returned" THEN rest
                    ELSE [ status |-> "returned",
                           gens |-> << perm.perm >> \o rest.gens ]

\* parse_generators_mpsym and parse_generators_permlib up to the
\* conversion of the cycles.
parse_generators_of(gen_str) == parse_generators(split_generators(gen_str), 1)

\* The generators written in the group strings, the first two not in the
\* format.
GeneratorStrings ==
  { << "(", "1", ")" >>,
    << "1", ",", "2" >>,
    << "(", ")" >>,
    << "(", "1", ",", "2", ")" >>,
    << "(", "1", "0", ",", "2", ",", "3", ")" >>,
    << "(", "1", ",", "3", ")", "(", "2", ",", "4", ")" >> }

\* The group strings parsed: degree, order and one or more generators;
\* some with a key misspelt, some without the closing bracket.
GroupStrings ==
  { key \o << "3", ",", "o", "r", "d", "e", "r", ":" >> \o order_digits
        \o << ",", "g", "e", "n", "s", ":", "[" >> \o Join(strs, << "," >>) \o closing :
      key \in { << "d", "e", "g", "r", "e", "e", ":" >>, << "d", "e", "g", ":" >> },
      order_digits \in { << "6" >>, << "1", "2" >> },
      strs \in SeqsUpTo(GeneratorStrings, MaxParsedGenerators) \ { <<>> },
      closing \in { << "]" >>, <<>> } }

\* The generators written in a group string.
WrittenGenerators(group_str) ==
  CHOOSE strs \in SeqsUpTo(GeneratorStrings, MaxParsedGenerators) :
    \E k \in 1..Len(group_str) :
      /\ group_str[k] = "["
      /\ \/ SubSeq(group_str, k + 1, Len(group_str)) = Join(strs, << "," >>) \o << "]" >>
         \/ SubSeq(group_str, k + 1, Len(group_str)) = Join(strs, << "," >>)

\* Before the calls: a group string read from a file.
GroupInit ==
  /\ parse_input \in GroupStrings
  /\ parse_result = [ group |-> NotCalled, generators |-> NotCalled ]

InitGroup ==
  /\ GroupInit
  /\ ReprIdle /\ ArchInit
  /\ IterIdle /\ ProdIdle /\ ClusterIdle /\ QueueIdle /\ PPermIdle

\* The call of parse_group.
ParseGroup ==
  /\ parse_result.group = NotCalled
  /\ parse_result' = [ parse_result EXCEPT !.group = parse_group(parse_input) ]
  /\ UNCHANGED << parse_input, reprVars, archVars, iterVars, prodVars,
                  clusterVars, queueVars, ppermVars >>

\* The call of parse_generators_mpsym or parse_generators_permlib on the
\* generators of the group that parse_group returned.
ParseGenerators ==
  /\ parse_result.group.status = "returned"
  /\ parse_result.generators = NotCalled
  /\ parse_result' = [ parse_result EXCEPT
                         !.generators = parse_generators_of(parse_result.group.generators) ]
  /\ UNCHANGED << parse_input, reprVars, archVars, iterVars, prodVars,
                  clusterVars, queueVars, ppermVars >>

GroupNext == ParseGroup \/ ParseGenerators

SpecGroup == InitGroup /\ [][GroupNext]_vars

\* Whether a group string is in the format of the specification: the
\* keys, the brackets, and every generator cycles of two or more numbers
\* or "()".
WellFormedGroup(group_str) ==
  /\ HasAt(group_str, 1, << "d", "e", "g", "r", "e", "e", ":" >>)
  /\ group_str[Len(group_str)] = "]"
  /\ \A k \in DOMAIN WrittenGenerators(group_str) :
       WrittenGenerators(group_str)[k] \notin { << "(", "1", ")" >>, << "1", ",", "2" >> }

\* C17: a group string in the format, with the identity written "()"
\* among its generators, is accepted: parse_group returns, and
\* parse_generators returns a generator without cycles for every "()".
C17_IdentityGeneratorAccepted ==
  (/\ WellFormedGroup(parse_input)
   /\ << "(", ")" >> \in Range(WrittenGenerators(parse_input))) =>
    /\ parse_result.group.status \in { "none", "returned" }
    /\ parse_result.generators.status \in { "none", "returned" }
    /\ parse_result.generators.status = "returned" =>
         \A k \in DOMAIN WrittenGenerators(parse_input) :
           WrittenGenerators(parse_input)[k] = << "(", ")" >> =>
             parse_result.generators.gens[k] = <<>>

\* What the code does with "()": parse_group accepts the string, and
\* parse_generators ends with std::out_of_range at substr(n_beg, ...),
\* n_beg being -1 at the closing bracket.
IdentityGeneratorThrows ==
  (/\ WellFormedGroup(parse_input)
   /\ << "(", ")" >> \in Range(WrittenGenerators(parse_input))) =>
    /\ parse_result.group.status \in { "none", "returned" }
    /\ parse_result.generators.status \in { "none", "out_of_range" }

\* A group string in the format without "()" is parsed to its cycles.
CyclesParsed ==
  (/\ WellFormedGroup(parse_input)
   /\ << "(", ")" >> \notin Range(WrittenGenerators(parse_input))) =>
    /\ parse_result.group.status \in { "none", "returned" }
    /\ parse_result.generators.status \in { "none", "returned" }

\* A group string not in the format is rejected by parse_group.
MalformedGroupRejected ==
  ~WellFormedGroup(parse_input) =>
    parse_result.group.status \in { "none", "invalid_argument" }

\* A group string without "()" has been parsed to its cycles.
GroupParsed ==
  /\ parse_result.generators.status = "returned"
  /\ Len(parse_result.generators.gens) = 2
  /\ parse_result.generators.gens[1] = << << 10, 2, 3 >> >>
  /\ parse_result.generators.gens[2] = << << 1, 3 >>, << 2, 4 >> >>

\* ------------------------------------------------------------------------
\* profile_parse: split_task_allocations
\* ------------------------------------------------------------------------

\* The longest task allocations string parsed.
MaxAllocationsLen == 7

\* The characters of the task allocations strings.
AllocationChars == { "1", "2", " ", "\n" }

\* UINT_MAX, written as the int of the same bits; unsigned_min and the
\* comparisons of unsigned values take it as the largest value.
UINT_MAX == -1

unsigned_min(a, b) ==
  IF a = UINT_MAX THEN b ELSE IF b = UINT_MAX THEN a ELSE IF a < b THEN a ELSE b

unsigned_max(a, b) ==
  IF a = UINT_MAX \/ b = UINT_MAX THEN UINT_MAX ELSE IF a < b THEN b ELSE a

\* std::string::find(c, pos): the position from pos on (counted from 0)
\* that holds c, or -1 for npos.
RECURSIVE find(_, _, _)
find(s, c, pos) ==
  IF pos >= Len(s) THEN -1
  ELSE IF s[pos + 1] = c THEN pos
  ELSE find(s, c, pos + 1)

\* std::getline(ss, line) on the rest of the stream from the position pos
\* on (counted from 0): no line at the end of the stream, else the
\* characters up to the next newline, which is consumed.
getline(s, pos) ==
  IF pos >= Len(s) THEN [ good |-> FALSE ]
  ELSE LET nl == find(s, "\n", pos)
       IN  IF nl = -1
             THEN [ good |-> TRUE, line |-> SubSeq(s, pos + 1, Len(s)), pos |-> Len(s) ]
             ELSE [ good |-> TRUE, line |-> SubSeq(s, pos + 1, nl), pos |-> nl + 1 ]

\* "(?: \d+)*" up to the end of the line, from the position i on.
RECURSIVE re_task_allocation_rest(_, _)
re_task_allocation_rest(line, i) ==
  IF i > Len(line) THEN TRUE
  ELSE /\ line[i] = " "
       /\ SkipDigits(line, i + 1) > i + 1
       /\ re_task_allocation_rest(line, SkipDigits(line, i + 1))

\* std::regex_match(line, m, re_task_allocation) for the regular
\* expression "(\d+(?: \d+)*)" of parse_task_allocations_mpsym.
re_task_allocation(line) ==
  /\ SkipDigits(line, 1) > 1
  /\ re_task_allocation_rest(line, SkipDigits(line, 1))

\* The loop "for (;;)" over the entries of a line from pos_begin on.
RECURSIVE task_allocation_loop(_, _, _, _)
task_allocation_loop(task_allocation_str, delim, pos_begin, acc) ==
  LET pos_end == find(task_allocation_str, delim, pos_begin)
      pe == stox(IF pos_end = -1
                   THEN SubSeq(task_allocation_str, pos_begin + 1,
                               Len(task_allocation_str))
                   ELSE substr(task_allocation_str, pos_begin,
                               pos_end - pos_begin).str).value
      next == [ min_pe |-> unsigned_min(pe, acc.min_pe),
                max_pe |-> unsigned_max(pe, acc.max_pe),
                task_allocation |-> Append(acc.task_allocation, pe) ]
  IN  IF pos_end = -1 THEN next
      ELSE task_allocation_loop(task_allocation_str, delim, pos_end + 1, next)

\* A plausible slip: the loop over the lines without the comparison of a
\* line's size with num_tasks.
RECURSIVE split_task_allocations_loop_unchecked(_, _, _, _, _, _)
split_task_allocations_loop_unchecked(s, pos, num_tasks, min_pe, max_pe, task_allocations) ==
  LET got == getline(s, pos)
  IN  IF ~got.good
        THEN [ status |-> "returned", min_pe |-> min_pe, max_pe |-> max_pe,
               task_allocations |-> task_allocations ]
      ELSE IF ~re_task_allocation(got.line)
        THEN [ status |-> "invalid_argument",
               what |-> "malformed task allocation expression" ]
      ELSE LET line == task_allocation_loop(
                         got.line, " ", 0,
                         [ min_pe |-> min_pe, max_pe |-> max_pe,
                           task_allocation |-> <<>> ])
           IN  split_task_allocations_loop_unchecked(
                 s, got.pos, Len(line.task_allocation), line.min_pe, line.max_pe,
                 Append(task_allocations, line.task_allocation))

\* The loop "while (std::getline(ss, line))" from the position pos on.
RECURSIVE split_task_allocations_loop(_, _, _, _, _, _)
split_task_allocations_loop(s, pos, num_tasks, min_pe, max_pe, task_allocations) ==
  LET got == getline(s, pos)
  IN  IF ~got.good
        THEN [ status |-> "returned", min_pe |-> min_pe, max_pe |-> max_pe,
               task_allocations |-> task_allocations ]
      ELSE IF ~re_task_allocation(got.line)
        THEN [ status |-> "invalid_argument",
               what |-> "malformed task allocation expression" ]
      ELSE LET line == task_allocation_loop(
                         got.line, " ", 0,
                         [ min_pe |-> min_pe, max_pe |-> max_pe,
                           task_allocation |-> <<>> ])
           IN  IF num_tasks # 0 /\ Len(line.task_allocation) # num_tasks
                 THEN [ status |-> "invalid_argument",
                        what |-> "currently only equally sized task sets are supported" ]
                 ELSE split_task_allocations_loop(
                        s, got.pos, Len(line.task_allocation),
                        line.min_pe, line.max_pe,
                        Append(task_allocations, line.task_allocation))

\* split_task_allocations(task_allocations_str, "(\d+(?: \d+)*)", ' ').
split_task_allocations(task_allocations_str) ==
  split_task_allocations_loop(task_allocations_str, 0, 0, UINT_MAX, 0, <<>>)

\* Before the call: a task allocations string read from a file.
InitAlloc ==
  /\ parse_input \in SeqsUpTo(AllocationChars, MaxAllocationsLen)
  /\ parse_result = NotCalled
  /\ ReprIdle /\ ArchInit
  /\ IterIdle /\ ProdIdle /\ ClusterIdle /\ QueueIdle /\ PPermIdle

\* The call of parse_task_allocations_mpsym.
SplitTaskAllocations ==
  /\ parse_result = NotCalled
  /\ parse_result' = split_task_allocations(parse_input)
  /\ UNCHANGED << parse_input, reprVars, archVars, iterVars, prodVars,
                  clusterVars, queueVars, ppermVars >>

AllocNext == SplitTaskAllocations

SpecAlloc == InitAlloc /\ [][AllocNext]_vars

\* The lines of a string: its pieces between newlines, without the empty
\* piece after a final newline.
LinesOf(s) ==
  LET pieces == split(s, << "\n" >>)
  IN  IF pieces[Len(pieces)] = <<>> THEN SubSeq(pieces, 1, Len(pieces) - 1)
      ELSE pieces

\* The entries of a line and whether it is in the format: numbers
\* separated by single spaces.
EntriesOf(line) == split(line, << " " >>)

InFormat(line) ==
  \A k \in DOMAIN EntriesOf(line) :
    /\ EntriesOf(line)[k] # <<>>
    /\ \A j \in DOMAIN EntriesOf(line)[k] : IsDigit(EntriesOf(line)[k][j])

\* The numbers of a line in the format.
NumbersOf(line) ==
  [ k \in DOMAIN EntriesOf(line) |-> digits_value(EntriesOf(line)[k], 0) ]

\* C18: split_task_allocations fails when a line has another number of
\* entries than the first line and when a line is not in the format;
\* otherwise it returns the allocations in the order of the lines, with
\* the least and the greatest processor number of all of them.
C18_EqualLengthAllocations ==
  parse_result.status # "none" =>
    LET lines == LinesOf(parse_input)
        consistent == /\ \A k \in DOMAIN lines : InFormat(lines[k])
                      /\ \A k \in DOMAIN lines :
                           Len(EntriesOf(lines[k])) = Len(EntriesOf(lines[1]))
    IN  /\ ~consistent => parse_result.status = "invalid_argument"
        /\ consistent =>
             /\ parse_result.status = "returned"
             /\ parse_result.task_allocations =
                  [ k \in DOMAIN lines |-> NumbersOf(lines[k]) ]
             /\ lines # <<>> =>
                  LET all == UNION { Range(NumbersOf(lines[k])) : k \in DOMAIN lines }
                  IN  /\ parse_result.min_pe \in all
                      /\ parse_result.max_pe \in all
                      /\ \A pe \in all : parse_result.min_pe <= pe
                      /\ \A pe \in all : pe <= parse_result.max_pe

\* Two allocations of two tasks have been returned, the least processor
\* number in the second.
C18_Witness ==
  /\ parse_result.status = "returned"
  /\ Len(parse_result.task_allocations) = 2
  /\ parse_result.task_allocations[1] = << 2, 2 >>
  /\ parse_result.task_allocations[2] = << 2, 1 >>
  /\ parse_result.min_pe = 1
  /\ parse_result.max_pe = 2

\* ------------------------------------------------------------------------
\* profile_parse: build_arch_graph_system
\* ------------------------------------------------------------------------

\* The most children under a "cluster" or "super_graph" key.
MaxTreeChildren == 2

\* A node of the property tree: whether it has the key "component" (its
\* value a well-formed degree and generators), the children under its key
\* "cluster" and under its key "super_graph" if it has these keys, and
\* whether it has a key besides these three.
NoChild == [ present |-> FALSE, children |-> <<>> ]

SomeChildren(children) == [ present |-> TRUE, children |-> children ]

TreeNode(component, cluster, super_graph, extra) ==
  [ component |-> component, cluster |-> cluster,
    super_graph |-> super_graph, extra |-> extra ]

\* The nodes without grandchildren: a component, a component with an
\* extra key, a node without keys, a node with only an extra key, and an
\* empty cluster.
TreeLeaves ==
  { TreeNode(TRUE, NoChild, NoChild, FALSE),
    TreeNode(TRUE, NoChild, NoChild, TRUE),
    TreeNode(FALSE, NoChild, NoChild, FALSE),
    TreeNode(FALSE, NoChild, NoChild, TRUE),
    TreeNode(FALSE, SomeChildren(<<>>), NoChild, FALSE) }

\* The property trees read from the JSON descriptions; a "super_graph"
\* key has at least one child.
PropertyTrees ==
  { TreeNode(component, cluster, super_graph, extra) :
      component \in BOOLEAN,
      cluster \in { NoChild } \cup
                  { SomeChildren(c) : c \in SeqsUpTo(TreeLeaves, MaxTreeChildren) },
      super_graph \in { NoChild } \cup
                      { SomeChildren(c) :
                          c \in SeqsUpTo(TreeLeaves, MaxTreeChildren) \ { <<>> } },
      extra \in BOOLEAN }

\* The subsystems built from the children from k on, or the exception of
\* the first child that fails.
RECURSIVE build_subsystems(_, _)

\* build_arch_graph_system(pt): the kind of system built with the
\* subsystems it was given, or the exception thrown.
RECURSIVE build_arch_graph_system(_)
build_arch_graph_system(pt) ==
  IF pt.component
    THEN [ status |-> "returned", system |-> "ArchGraphAutomorphisms",
           subsystems |-> <<>> ]
  ELSE IF pt.cluster.present
    THEN LET built == build_subsystems(pt.cluster.children, 1)
         IN  IF built.status # "returned" THEN built
             ELSE [ status |-> "returned", system |-> "ArchGraphCluster",
                    subsystems |-> built.subsystems ]
  ELSE IF pt.super_graph.present
    THEN IF Len(pt.super_graph.children) # 2
           THEN [ status |-> "invalid_argument",
                  what |-> "super_graph must be composed of two components" ]
           ELSE LET built == build_subsystems(pt.super_graph.children, 1)
                IN  IF built.status # "returned" THEN built
                    ELSE [ status |-> "returned", system |-> "ArchUniformSuperGraph",
                           subsystems |-> built.subsystems ]
  ELSE [ status |-> "invalid_argument",
         what |-> "malformed arch graph system description" ]

build_subsystems(children, k) ==
  IF k > Len(children) THEN [ status |-> "returned", subsystems |-> <<>> ]
  ELSE LET first == build_arch_graph_system(children[k])
       IN  IF first.status # "returned" THEN first
           ELSE LET rest == build_subsystems(children, k + 1)
                IN  IF rest.status # "returned" THEN rest
                    ELSE [ status |-> "returned",
                           subsystems |-> << first.system >> \o rest.subsystems ]

\* Before the call: a property tree read by parse_arch_graph_system.
InitBuild ==
  /\ parse_input \in PropertyTrees
  /\ parse_result = NotCalled
  /\ ReprIdle /\ ArchInit
  /\ IterIdle /\ ProdIdle /\ ClusterIdle /\ QueueIdle /\ PPermIdle

\* The call of build_arch_graph_system.
BuildArchGraphSystem ==
  /\ parse_result = NotCalled
  /\ parse_result' = build_arch_graph_system(parse_input)
  /\ UNCHANGED << parse_input, reprVars, archVars, iterVars, prodVars,
                  clusterVars, queueVars, ppermVars >>

BuildNext == BuildArchGraphSystem

SpecBuild == InitBuild /\ [][BuildNext]_vars

\* Whether the keys of a node are exactly "component", exactly "cluster"
\* or exactly "super_graph".
ExactlyOneKind(pt) ==
  /\ ~pt.extra
  /\ (IF pt.component THEN 1 ELSE 0) + (IF pt.cluster.present THEN 1 ELSE 0)
       + (IF pt.super_graph.present THEN 1 ELSE 0) = 1

\* The nodes of a tree: its root and the children under the root's
\* "cluster" and "super_graph" keys.
NodesOf(pt) ==
  { pt } \cup Range(pt.cluster.children) \cup Range(pt.super_graph.children)

\* C19: build_arch_graph_system fails on every tree with a node that has
\* not exactly one of the keys "component", "cluster", "super_graph" and
\* no other key.
C19_KeySetMustBeExact ==
  (/\ parse_result.status # "none"
   /\ \E node \in NodesOf(parse_input) : ~ExactlyOneKind(node)) =>
    parse_result.status = "invalid_argument"

\* What the code does: only a root without any of the three keys is
\* refused as malformed; other keys are never looked at.
NoKindRefused ==
  (/\ parse_result.status # "none"
   /\ ~parse_input.component
   /\ ~parse_input.cluster.present
   /\ ~parse_input.super_graph.present) =>
    /\ parse_result.status = "invalid_argument"
    /\ parse_result.what = "malformed arch graph system description"

\* A component with an extra key is built.
ExtraKeyIgnored ==
  (/\ parse_result.status # "none"
   /\ parse_input.component) =>
    parse_result.status = "returned"

\* ------------------------------------------------------------------------
\* PartialPerm
\* ------------------------------------------------------------------------

\* The points 0 .. MaxPPermDegree - 1 carry the partial permutations
\* multiplied besides those of the tests.
MaxPPermDegree == 3

\* The image of x under a mapping vector that counts from 0, -1 where the
\* vector has no entry or the entry -1.
pperm_at(mapping_, x) ==
  IF 0 <= x /\ x < Len(mapping_) THEN mapping_[x + 1] ELSE -1

\* The mapping vector without the entries -1 at its end.
RECURSIVE pperm_trimmed(_)
pperm_trimmed(mapping_) ==
  IF mapping_ # <<>> /\ mapping_[Len(mapping_)] = -1
    THEN pperm_trimmed(SubSeq(mapping_, 1, Len(mapping_) - 1))
    ELSE mapping_

\* The integers of a finite set in increasing order.
RECURSIVE SortedInts(_)
SortedInts(S) ==
  IF S = {} THEN <<>>
  ELSE LET least == CHOOSE x \in S : \A y \in S : x <= y
       IN  << least >> \o SortedInts(S \ { least })

\* PartialPerm(mapping): the vector with what dom(), im(), dom_min(),
\* dom_max(), im_min(), im_max() and id() return; the limits of an empty
\* partial permutation are -1.
PartialPerm(mapping_) ==
  LET m == pperm_trimmed(mapping_)
      dom == SortedInts({ x \in 0..(Len(m) - 1) : pperm_at(m, x) # -1 })
      im == SortedInts({ pperm_at(m, x) : x \in 0..(Len(m) - 1) } \ { -1 })
  IN  [ mapping |-> m,
        dom |-> dom,
        im |-> im,
        dom_min |-> IF dom = <<>> THEN -1 ELSE dom[1],
        dom_max |-> IF dom = <<>> THEN -1 ELSE dom[Len(dom)],
        im_min |-> IF im = <<>> THEN -1 ELSE im[1],
        im_max |-> IF im = <<>> THEN -1 ELSE im[Len(im)],
        id |-> \A k \in DOMAIN dom : pperm_at(m, dom[k]) = dom[k] ]

\* PartialPerm(dom, im): dom[k] goes to im[k].
PartialPermOf(dom, im) ==
  PartialPerm([ i \in 1..(IF dom = <<>> THEN 0
                          ELSE 1 + CHOOSE x \in Range(dom) :
                                     \A y \in Range(dom) : y <= x) |->
                  IF i - 1 \in Range(dom)
                    THEN im[CHOOSE k \in DOMAIN dom : dom[k] = i - 1]
                    ELSE -1 ])

\* PartialPerm(degree): the identity on 0 .. degree - 1.
PartialPermId(degree) == PartialPerm([ i \in 1..degree |-> i - 1 ])

\* A plausible slip: the product with the operands exchanged.
pperm_multiply_reversed(lhs, rhs) ==
  PartialPerm([ i \in 1..Len(rhs.mapping) |->
                  pperm_at(lhs.mapping, pperm_at(rhs.mapping, i - 1)) ])

\* PartialPerm::operator*= and operator*: lhs first, then rhs.
pperm_multiply(lhs, rhs) ==
  PartialPerm([ i \in 1..Len(lhs.mapping) |->
                  pperm_at(rhs.mapping, pperm_at(lhs.mapping, i - 1)) ])

\* The products of CanMultiplyPartialPerms with their expected values.
CanMultiplyPartialPerms ==
  LET a == PartialPerm(<< 4, 8, 9, 10, -1, -1, -1, -1, -1, 11, 3, 2 >>)
      b == PartialPerm(<< -1, 3, -1, 2, -1, 8, 5, -1, 6, -1, 10 >>)
  IN  { [ lhs |-> PartialPerm(<<>>), rhs |-> a, test |-> "multiply",
          expected |-> PartialPerm(<<>>), expected_id |-> TRUE ],
        [ lhs |-> a, rhs |-> PartialPerm(<<>>), test |-> "multiply",
          expected |-> PartialPerm(<<>>), expected_id |-> TRUE ],
        [ lhs |-> b, rhs |-> a, test |-> "multiply",
          expected |-> PartialPerm(<< -1, 10, -1, 9, -1, -1, -1, -1, -1, -1, 3 >>),
          expected_id |-> FALSE ] }

\* The products of CanCheckIfPartialPermIsId with the expected id().
CanCheckIfPartialPermIsId ==
  { [ lhs |-> PartialPermOf(<< 0, 1, 2 >>, << 2, 3, 0 >>),
      rhs |-> PartialPermOf(<< 0, 3, 2 >>, << 2, 1, 0 >>), test |-> "id",
      expected |-> PartialPerm(<<>>), expected_id |-> TRUE ],
    [ lhs |-> PartialPermId(3),
      rhs |-> PartialPermOf(<< 0, 1, 2 >>, << 2, 1, 0 >>), test |-> "id",
      expected |-> PartialPerm(<<>>), expected_id |-> FALSE ],
    [ lhs |-> PartialPermOf(<< 0, 1, 2 >>, << 2, 1, 0 >>),
      rhs |-> PartialPermId(2), test |-> "id",
      expected |-> PartialPerm(<<>>), expected_id |-> FALSE ] }

\* The partial permutations of the points 0 .. MaxPPermDegree - 1.
SmallPartialPerms ==
  { PartialPerm(m) :
      m \in { m \in SeqsUpTo((0..(MaxPPermDegree - 1)) \cup { -1 }, MaxPPermDegree) :
                \A j, k \in DOMAIN m : (m[j] = m[k] /\ m[j] # -1) => j = k } }

\* Before the product: the operands of a test, or two small partial
\* permutations.
InitPPerm ==
  /\ pperm_operands \in
       CanMultiplyPartialPerms \cup CanCheckIfPartialPermIsId \cup
       { [ lhs |-> lhs, rhs |-> rhs, test |-> "none",
           expected |-> PartialPerm(<<>>), expected_id |-> TRUE ] :
           lhs \in SmallPartialPerms, rhs \in SmallPartialPerms }
  /\ pperm_result = NotCalled
  /\ ReprIdle /\ ArchInit
  /\ IterIdle /\ ProdIdle /\ ClusterIdle /\ QueueIdle /\ ParseIdle

\* "pperm_mult_assign *= rhs" and "pperm_mult = lhs * rhs".
Multiply ==
  /\ pperm_result = NotCalled
  /\ pperm_result' =
       [ status |-> "returned",
         pperm_mult_assign |-> pperm_multiply(pperm_operands.lhs, pperm_operands.rhs),
         pperm_mult |-> pperm_multiply(pperm_operands.lhs, pperm_operands.rhs) ]
  /\ UNCHANGED << pperm_operands, reprVars, archVars, iterVars, prodVars,
                  clusterVars, queueVars, parseVars >>

PPermNext == Multiply

SpecPPerm == InitPPerm /\ [][PPermNext]_vars

\* The points on which the product of p and q is defined, and the image
\* of such a point.
ProductPoints(p, q) ==
  { x \in Range(p.dom) : pperm_at(p.mapping, x) \in Range(q.dom) }

ProductImage(p, q, x) == pperm_at(q.mapping, pperm_at(p.mapping, x))

\* C20: p * q and p *= q are the map x -> q[p[x]] on the points x of
\* dom(p) with p[x] in dom(q): dom(), im() and the four limits are those
\* of that map, the product with an empty operand is empty, and the
\* products of the tests have the values the tests expect.
C20_PartialPermProduct ==
  pperm_result.status = "returned" =>
    LET p == pperm_operands.lhs
        q == pperm_operands.rhs
        points == ProductPoints(p, q)
        images == { ProductImage(p, q, x) : x \in points }
    IN  \A product \in { pperm_result.pperm_mult, pperm_result.pperm_mult_assign } :
          /\ \A x \in 0..(Len(p.mapping) + Len(q.mapping)) :
               pperm_at(product.mapping, x) =
                 IF x \in points THEN ProductImage(p, q, x) ELSE -1
          /\ Range(product.dom) = points
          /\ Range(product.im) = images
          /\ \A j, k \in DOMAIN product.dom : j < k => product.dom[j] < product.dom[k]
          /\ \A j, k \in DOMAIN product.im : j < k => product.im[j] < product.im[k]
          /\ points # {} =>
               /\ product.dom_min \in points /\ \A x \in points : product.dom_min <= x
               /\ product.dom_max \in points /\ \A x \in points : x <= product.dom_max
               /\ product.im_min \in images /\ \A y \in images : product.im_min <= y
               /\ product.im_max \in images /\ \A y \in images : y <= product.im_max
          /\ (p.dom = <<>> \/ q.dom = <<>>) =>
               /\ product.mapping = <<>>
               /\ product.dom = <<>> /\ product.im = <<>>
               /\ product.dom_min = -1 /\ product.dom_max = -1
               /\ product.im_min = -1 /\ product.im_max = -1
          /\ pperm_operands.test = "multiply" => product = pperm_operands.expected
          /\ pperm_operands.test = "id" => product.id = pperm_operands.expected_id

\* The third product of CanMultiplyPartialPerms has been taken: it is
\* defined on the points 1, 3 and 10.
C20_Witness ==
  /\ pperm_result.status = "returned"
  /\ pperm_operands.test = "multiply"
  /\ pperm_result.pperm_mult.dom = << 1, 3, 10 >>
  /\ pperm_result.pperm_mult.im = << 3, 9, 10 >>
  /\ pperm_result.pperm_mult_assign.mapping =
       << -1, 10, -1, 9, -1, -1, -1, -1, -1, -1, 3 >>

\* ------------------------------------------------------------------------
\* The descents statement by statement: min_elem_local_search and
\* min_elem_approx
\* ------------------------------------------------------------------------

\* The locals of a descent at its entry; j counts the generators the
\* running scan has tested.
DescentStart(kind, tasks) ==
  [ status |-> "running", kind |-> kind, tasks |-> tasks,
    representative |-> tasks, j |-> 0, stationary |-> TRUE ]

\* A plausible slip: a generator is applied and stationary stays true.
local_search_step_stationary(st, offs, gens) ==
  IF st.j = Len(gens)
    THEN IF st.stationary
           THEN [ st EXCEPT !.status = "returned" ]
           ELSE [ st EXCEPT !.stationary = TRUE, !.j = 0 ]
  ELSE IF less_than_permuted(st.representative, st.representative,
                             gens[st.j + 1], offs)
    THEN [ st EXCEPT !.representative = permuted(@, gens[st.j + 1], offs),
                     !.j = @ + 1 ]
    ELSE [ st EXCEPT !.j = @ + 1 ]

\* min_elem_local_search, one test of a generator or one test of the
\* while condition: a generator that makes the representative smaller is
\* applied, and the scan goes on with the next generator.
local_search_step(st, offs, gens) ==
  IF st.j = Len(gens)
    THEN IF st.stationary
           THEN [ st EXCEPT !.status = "returned" ]
           ELSE [ st EXCEPT !.stationary = TRUE, !.j = 0 ]
  ELSE IF less_than_permuted(st.representative, st.representative,
                             gens[st.j + 1], offs)
    THEN [ st EXCEPT !.representative = permuted(@, gens[st.j + 1], offs),
                     !.stationary = FALSE,
                     !.j = @ + 1 ]
    ELSE [ st EXCEPT !.j = @ + 1 ]

\* min_elem_approx, one test of a generator or one test of the do-while
\* condition: a generator that makes min_element smaller is applied, and
\* the break leaves the scan.
approx_step(st, generators, min_pe, max_pe) ==
  IF st.j = Len(generators)
    THEN IF st.stationary
           THEN [ st EXCEPT !.status = "returned" ]
           ELSE [ st EXCEPT !.stationary = TRUE, !.j = 0 ]
  ELSE IF approx_new_minimum(generators[st.j + 1], st.representative,
                             min_pe, max_pe, 1)
    THEN [ st EXCEPT !.representative =
                       approx_assign(generators[st.j + 1], @, min_pe, max_pe),
                     !.stationary = FALSE,
                     !.j = Len(generators) ]
    ELSE [ st EXCEPT !.j = @ + 1 ]

DescentKinds == { "min_elem_local_search", "min_elem_approx" }

\* A caller enters one of the descents with a task mapping.
DescentCall ==
  /\ search.status # "running"
  /\ \E kind \in DescentKinds, tasks \in TaskMappings :
       search' = DescentStart(kind, tasks)
  /\ UNCHANGED << grp, offset, orbits, calls, archVars, libVars >>

\* The running descent executes its next statement.
DescentStep ==
  /\ search.status = "running"
  /\ search' =
       IF search.kind = "min_elem_local_search"
         THEN local_search_step(search, offset, ReprGroups[grp].gens)
         ELSE approx_step(search, ReprGroups[grp].gens, offset,
                          offset + ReprGroups[grp].degree - 1)
  /\ UNCHANGED << grp, offset, orbits, calls, archVars, libVars >>

DescentNext == DescentCall \/ DescentStep

InitDescent == ReprInit /\ ArchInit /\ LibIdle

\* The descent runs in the caller's thread: its next statement is taken.
SpecDescent == InitDescent /\ [][DescentNext]_vars /\ WF_vars(DescentStep)

\* The generators that map tasks to a lexicographically smaller mapping.
ImprovingGenerators(tasks) ==
  { j \in 1..Len(ReprGroups[grp].gens) :
      LexLess(permuted(tasks, ReprGroups[grp].gens[j], offset), tasks) }

\* What the descent returns when it is run as a whole.
DescentResult(kind, tasks) ==
  IF kind = "min_elem_local_search"
    THEN min_elem_local_search(tasks, offset, ReprGroups[grp].gens)
    ELSE min_elem_approx(ReprGroups[grp].gens, tasks, offset,
                         offset + ReprGroups[grp].degree - 1)

\* C21: each descent, min_elem_local_search (which goes on scanning after
\* it applied a generator) and min_elem_approx (which starts the scan
\* again), terminates, and no generator maps the mapping it returns to a
\* lexicographically smaller one.
C21_DescentTerminatesAtLocalMinimum ==
  /\ [](search.status = "returned" =>
          /\ ImprovingGenerators(search.representative) = {}
          /\ search.representative = DescentResult(search.kind, search.tasks))
  /\ (search.status = "running") ~> (search.status = "returned")

\* A descent returned after it had applied a generator.
C21_Witness ==
  /\ search.status = "returned"
  /\ search.kind = "min_elem_local_search"
  /\ ImprovingGenerators(search.tasks) # {}
  /\ search.representative # search.tasks

\* ------------------------------------------------------------------------
\* min_elem_orbits statement by statement, inside repr
\* ------------------------------------------------------------------------

\* The locals of min_elem_orbits at the first test of the while condition;
\* orbits_ptr is the parameter orbits, j the position in the generators.
OrbitsSearchStart(tasks, orbits_ptr) ==
  [ status |-> "running", kind |-> "min_elem_orbits", tasks |-> tasks,
    orbits_ptr |-> orbits_ptr, representative |-> tasks, processed |-> {},
    unprocessed |-> << tasks >>, pc |-> "while", current |-> tasks, j |-> 1,
    result |-> tasks ]

\* The test of the while condition and, when the queue is not empty, the
\* statements up to the loop over the generators.
orbits_while_step(st) ==
  IF st.unprocessed = <<>>
    THEN [ st EXCEPT !.status = "returned", !.result = st.representative ]
    ELSE LET current == Head(st.unprocessed)
         IN  [ st EXCEPT !.current = current,
                         !.unprocessed = Tail(@),
                         !.processed = @ \cup { current },
                         !.representative =
                           IF less_than(current, @) THEN current ELSE @,
                         !.pc = "for",
                         !.j = 1 ]

\* A plausible slip: the generator is applied without the offset.
orbits_for_step_no_offset(st, offs, gens) ==
  LET next == permuted(st.current, gens[st.j], 0)
      after == IF st.j = Len(gens) THEN "while" ELSE "for"
  IN  IF is_repr(next, st.orbits_ptr)
        THEN [ st EXCEPT !.status = "returned", !.result = next ]
      ELSE IF next \notin st.processed
        THEN [ st EXCEPT !.unprocessed = Append(@, next),
                         !.j = @ + 1, !.pc = after ]
        ELSE [ st EXCEPT !.j = @ + 1, !.pc = after ]

\* One turn of the loop over the generators.
orbits_for_step(st, offs, gens) ==
  LET next == permuted(st.current, gens[st.j], offs)
      after == IF st.j = Len(gens) THEN "while" ELSE "for"
  IN  IF is_repr(next, st.orbits_ptr)
        THEN [ st EXCEPT !.status = "returned", !.result = next ]
      ELSE IF next \notin st.processed
        THEN [ st EXCEPT !.unprocessed = Append(@, next),
                         !.j = @ + 1, !.pc = after ]
        ELSE [ st EXCEPT !.j = @ + 1, !.pc = after ]

\* The cache is passed to the search while it holds fewer representatives.
MaxCachedOrbits == 2

\* repr with options.method = ORBITS is called; cached: whether the
\* caller passes the cache or a null pointer.
OrbitsCall ==
  /\ search.status # "running"
  /\ \E tasks \in TaskMappings, cached \in BOOLEAN :
       /\ cached => Len(orbits) < MaxCachedOrbits
       /\ search' = OrbitsSearchStart(
                      tasks, IF cached THEN SomeOrbits(orbits) ELSE NullOrbits)
  /\ UNCHANGED << grp, offset, orbits, calls, archVars, libVars >>

\* The running search executes its next statement; at the return, repr
\* inserts the representative into the cache it was given.
OrbitsStep ==
  /\ search.status = "running"
  /\ LET st == IF search.pc = "while"
                 THEN orbits_while_step(search)
                 ELSE orbits_for_step(search, offset, ReprGroups[grp].gens)
     IN  /\ search' = st
         /\ orbits' = IF st.status = "returned" /\ st.orbits_ptr.present
                        THEN orbits_insert(orbits, st.result)
                        ELSE orbits
  /\ UNCHANGED << grp, offset, calls, archVars, libVars >>

OrbitsNext == OrbitsCall \/ OrbitsStep

InitOrbits == ReprInit /\ ArchInit /\ LibIdle

\* The search runs in the caller's thread: its next statement is taken.
SpecOrbits == InitOrbits /\ [][OrbitsNext]_vars /\ WF_vars(OrbitsStep)

\* The orbit of tasks under the group that the generators generate.
OrbitOf(tasks) ==
  { permuted(tasks, perm, offset) : perm \in ReprGroupElements[grp] }

\* C22: min_elem_orbits terminates, although a mapping enters processed
\* only when it is dequeued and can therefore be enqueued several times,
\* and at every moment the mappings in processed and in the queue belong
\* to the orbit of the input.
C22_OrbitSearchTerminatesInsideOrbit ==
  /\ [](search.status # "none" =>
          /\ search.processed \subseteq OrbitOf(search.tasks)
          /\ Range(search.unprocessed) \subseteq OrbitOf(search.tasks)
          /\ search.status = "returned" =>
               search.result = min_elem_orbits(search.tasks, offset,
                                               search.orbits_ptr,
                                               ReprGroups[grp].gens))
  /\ (search.status = "running") ~> (search.status = "returned")

\* A mapping stands twice in the queue of a running search.
C22_Witness ==
  /\ search.status = "running"
  /\ \E a, b \in DOMAIN search.unprocessed :
       a # b /\ search.unprocessed[a] = search.unprocessed[b]

\* The mappings reached from those of the set by the generators acting on
\* the processors from offs on.
RECURSIVE MappingOrbit(_, _, _)
MappingOrbit(mappings, gens, offs) ==
  LET reached == mappings \cup
                   { permuted(m, gens[j], offs) :
                       m \in mappings, j \in DOMAIN gens }
  IN  IF reached = mappings THEN mappings
      ELSE MappingOrbit(reached, gens, offs)

\* The generators of the direct product of the children's groups.
ClusterProductGenerators ==
  direct_product([ i \in DOMAIN cl_subsystems |->
                     subsystem_automorphisms(cl_subsystems[i]) ]).gens

\* C23: when every child canonicalizes exactly, what the cluster returns
\* after it called its children one after the other is the
\* lexicographically smallest mapping of the orbit of the input under the
\* direct product of the children's groups.
C23_ClusterReprIsProductMinimum ==
  ( /\ cl_result.status = "returned"
    /\ cl_result.op \in { "repr", "mapping" }
    /\ cl_result.method \in ExactMethods ) =>
    cl_result.mapping =
      LexMin(MappingOrbit({ cl_result.mapping_ }, ClusterProductGenerators,
                          cl_offset))

\* An exact call on a cluster of three subsystems of which the first and
\* the third changed the mapping.
C23_Witness ==
  /\ cl_result.status = "returned"
  /\ cl_result.op = "repr"
  /\ cl_result.method = "ITERATE"
  /\ Len(cl_trace) = 3
  /\ cl_trace[1].result # cl_trace[1].mapping
  /\ cl_trace[3].result # cl_trace[3].mapping
  /\ Cardinality(MappingOrbit({ cl_result.mapping_ }, ClusterProductGenerators,
                              cl_offset)) > 2

\* The calls of ArchGraph::mapping among the calls made.
MappingCalls ==
  { k \in DOMAIN calls : calls[k].method \in MappingVariants }

\* The processors of the architecture: offset .. offset + num_processors() - 1.
InMappingRange(pe) ==
  offset <= pe /\ pe <= offset + ReprGroups[grp].degree - 1

\* C24: ArchGraph::mapping, with either variant, returns as many tasks as
\* it was given, leaves every task outside the processors offset ..
\* offset + num_processors() - 1 where it was and keeps every task inside
\* that range inside it.
C24_MappingFrame ==
  \A k \in MappingCalls :
    /\ Len(calls[k].result) = Len(calls[k].mapping)
    /\ \A i \in DOMAIN calls[k].mapping :
         IF InMappingRange(calls[k].mapping[i])
           THEN InMappingRange(calls[k].result[i])
           ELSE calls[k].result[i] = calls[k].mapping[i]

\* Both variants were called on mappings with a task below the range and a
\* task inside it that the call moved.
C24_Witness ==
  /\ offset = 1
  /\ \A mapping_variant \in MappingVariants :
       \E k \in MappingCalls :
         /\ calls[k].method = mapping_variant
         /\ \E i, j \in DOMAIN calls[k].mapping :
              /\ calls[k].mapping[i] < offset
              /\ InMappingRange(calls[k].mapping[j])
              /\ calls[k].result[j] # calls[k].mapping[j]

\* The largest k with 2^k <= c, and the smallest k with c <= 2^k, c >= 1.
FloorLog2(c) == CHOOSE k \in 0..c : 2 ^ k <= c /\ c < 2 ^ (k + 1)

CeilLog2(c) == CHOOSE k \in 0..c : c <= 2 ^ k /\ (k = 0 \/ 2 ^ (k - 1) < c)

\* complete() runs on a graph with channel types: the call is made while
\* the automorphisms are not valid.
CompleteRuns ==
  /\ ~automorphisms_valid
  /\ last_op' = "complete"
  /\ channel_types >= 1

\* C25 as claimed: for c >= 1 channel types and p processors complete()
\* replicates the graph across ceil(log2(c) + 1) levels, p times as many
\* vertices, for every c and not only for the powers of two.
C25_LevelsRoundedUp ==
  [][ CompleteRuns =>
        /\ Cardinality(Levels) = CeilLog2(channel_types) + 1
        /\ n_nauty = num_processors * (CeilLog2(channel_types) + 1) ]_vars

\* C25 as amended: complete() replicates the graph across
\* floor(log2(c)) + 1 levels, the number of bits of c, p times as many
\* vertices.
C25_LevelsRoundedDown ==
  [][ CompleteRuns =>
        /\ Cardinality(Levels) = FloorLog2(channel_types) + 1
        /\ n_nauty = num_processors * (FloorLog2(channel_types) + 1) ]_vars

\* complete() has run on a processor with a channel of the last of five
\* channel types, a number between two powers of two.
C25_Witness ==
  /\ last_op = "complete"
  /\ automorphisms_valid
  /\ channel_types = 5
  /\ num_processors = 1
  /\ adj.edges = << << 0, 0, 4 >> >>

\* ------------------------------------------------------------------------
\* SchreierGeneratorQueue: what is yielded, update, the pass, the cursors
\* ------------------------------------------------------------------------

Reseeded(q, in) ==
  /\ q.strong_generators = in.strong_generators
  /\ q.fundamental_orbit = in.fundamental_orbit
  /\ q.schreier_structure = in.schreier_structure
  /\ q.sg_it = 1
  /\ q.beta_it = 1
  /\ q.valid /\ ~q.used /\ ~q.exhausted
  /\ q.u_beta = transversal(in.schreier_structure, in.fundamental_orbit[1])

\* C27: update changes nothing while the queue is valid; on a queue that
\* was invalidated or has just been constructed it seeds the queue in
\* place against the new generators and orbit, so that the next pass
\* starts at the first orbit point and the first generator with the flags
\* exhausted and used cleared.
C27_UpdateFrame ==
  /\ [](\A in \in QueueInputs :
          IF sgq.valid
            THEN update(sgq, in) = sgq
            ELSE /\ Reseeded(update(sgq, in), in)
                 /\ update(sgq, in).schreier_generator = sgq.schreier_generator)
  /\ [][ (~sgq.valid /\ sgq'.valid) =>
           /\ \E in \in QueueInputs : Reseeded(sgq', in)
           /\ sgq_pass'.yielded = <<>> ]_vars

\* An update has taken effect and nothing was read since; the arguments
\* were two generators with an orbit of three points.
C27_Witness ==
  /\ sgq.valid
  /\ ~sgq.used
  /\ ~sgq.exhausted
  /\ sgq.sg_it = 1 /\ sgq.beta_it = 1
  /\ Len(sgq.strong_generators) = 2
  /\ Len(sgq.fundamental_orbit) = 3
  /\ sgq.schreier_generator # << 1 >>

\* The order of the pairs in a pass: the orbit outer, the generators inner.
PairLess(a, b) == a[1] < b[1] \/ (a[1] = b[1] /\ a[2] < b[2])

PairOf(y) == << y.beta_it, y.sg_it >>

\* The pairs of the queue that are not skipped.
YieldablePairs(q) ==
  { pair \in Range(QueuePairs(q)) : ~IsIncomingPair(q, pair) }

\* A step of begin() or ++ that reads an element through the iterator.
Yields == Len(sgq_pass'.yielded) = Len(sgq_pass.yielded) + 1

C29_CursorsInRange ==
  /\ sgq.sg_it <= Len(sgq.strong_generators) + 1
  /\ sgq.beta_it <= Len(sgq.fundamental_orbit) + 1
  /\ ~sgq.exhausted =>
       /\ sgq.sg_it <= Len(sgq.strong_generators)
       /\ sgq.beta_it <= Len(sgq.fundamental_orbit)

\* ------------------------------------------------------------------------
\* ArchGraph::complete: the colouring
\* ------------------------------------------------------------------------

\* The graphs that are coloured: the most processors and the most types
\* of either kind.
ColourMaxProcessors == 4

ColourMaxTypes == 3

ColourNext ==
  \/ NewProcessorType(ColourMaxTypes)
  \/ NewChannelType(ColourMaxTypes)
  \/ AddProcessor(ColourMaxProcessors)
  \/ Complete

SpecColour == InitArch /\ [][ColourNext]_vars

\* The vertices of the graph handed to nauty, and the level and the
\* processor of each.
NautyVertices == 0..(n_nauty - 1)

LevelOf(x) == x \div n_orig

ProcessorOf(x) == x % n_orig

\* lab after the colouring loops: the vertices written to each slot.
LabWrites(s) ==
  { w[1] + w[2] * n_orig :
      w \in { q \in Processors \X Levels : slot(q[1], q[2]) = s } }

\* The last processor of the type of v.
LastOfType(v) ==
  \A u \in Processors : TypeOf(u) = TypeOf(v) => u <= v

\* C30: in the colouring of complete(), for every graph built with
\* new_processor_type and add_processor, the instance counters of the
\* types add up to num_processors(); on every level every vertex is
\* written to one slot of lab and every slot receives one vertex, so lab
\* is a permutation of the vertices of all levels; ptn marks the end of a
\* cell exactly at the last vertex of each processor type on each level;
\* the colour cells are the classes of (level, processor type).
C30_ColourCells ==
  /\ Len(processor_type_instances) = processor_types
  /\ SumUpTo(processor_type_instances, processor_types) = num_processors
  /\ \A s \in NautyVertices : Cardinality(LabWrites(s)) = 1
  /\ UNION { LabWrites(s) : s \in NautyVertices } = NautyVertices
  /\ \A v \in Processors, level \in Levels :
       /\ slot(v, level) \in NautyVertices
       /\ LevelOf(slot(v, level)) = level
       /\ ptn_at(slot(v, level)) = 0 <=> LastOfType(v)
  /\ \A x, y \in NautyVertices :
       colour(x) = colour(y) <=>
         /\ LevelOf(x) = LevelOf(y)
         /\ TypeOf(ProcessorOf(x)) = TypeOf(ProcessorOf(y))

\* complete() has coloured a graph of two levels with two processor
\* types, one of them with two processors that are not consecutive
\* vertices.
C30_Witness ==
  /\ last_op = "complete"
  /\ automorphisms_valid
  /\ Cardinality(Levels) = 2
  /\ adj.vertices = << 0, 1, 0 >>

=============================================================================
